---- MODULE Spec2Model ----
(***************************************************************************)
(* Progress tracker of the learning-path backend: LearningService         *)
(* (services/LearningService.js, the version that extends BaseService),   *)
(* BaseService and the LearningProgress mongoose schema.                   *)
(*                                                                         *)
(* The store is the LearningProgress collection.  Every service method is  *)
(* one action: requests run to completion one after the other.             *)
(* Strings that the code inspects (user ids, "session:" prefix) are tuples *)
(* of one-character strings, so that startsWith is computed.               *)
(***************************************************************************)
EXTENDS Integers, Sequences, FiniteSets, TLC

VARIABLES paths, nextId, now, last, inflight, extraction

vars == <<paths, nextId, now, last, inflight, extraction>>

----------------------------------------------------------------------------
(* Bounds *)

MaxPaths == 2
MaxSteps == 2
MaxTime == 2
\* the longest step list created while the clock runs or the model's calls reject
MaxClockSteps == 1
\* the longest text handed to the extractor, in lines
MaxLines == 3

----------------------------------------------------------------------------
(* Strings *)

SessionPrefix == <<"s", "e", "s", "s", "i", "o", "n", ":">>
UserA == <<"u", "A">>
UserB == <<"u", "B">>
SessionX == SessionPrefix \o <<"x">>
\* "" / undefined / null: the falsy caller ids
NoUser == <<>>

UserIds == {UserA, UserB, SessionX, NoUser}

\* String.prototype.startsWith
startsWith(s, p) == Len(s) >= Len(p) /\ SubSeq(s, 1, Len(p)) = p

\* JavaScript truthiness of a string value
Truthy(s) == s # <<>>

----------------------------------------------------------------------------
(* Values *)

\* step ids a request can carry; NoId is a step record without an id
NoId == "undefined"
StepIds == {"s1", "s2"}
\* Date fields: 0 is an absent (undefined) date
NoDate == 0
NoNotes == "undefined"
Notes == {"n1", "n2"}
ChatIds == {"c1", ""}
Titles == {"T", ""}
PathIds == 1..MaxPaths

\* the step records of a request body: id and whatever completed flag it carries
InSteps == [id : StepIds \cup {NoId}, completed : BOOLEAN]

RECURSIVE SeqsUpTo(_, _)
SeqsUpTo(S, n) ==
  IF n = 0 THEN {<<>>}
  ELSE LET shorter == SeqsUpTo(S, n - 1)
       IN shorter \cup {Append(q, x) : q \in {r \in shorter : Len(r) = n - 1}, x \in S}

\* pathData.steps: missing, a non-array value, or an array of step records
StepsInputs ==
  {[kind |-> "missing", items |-> <<>>], [kind |-> "notArray", items |-> <<>>]}
  \cup {[kind |-> "array", items |-> q] : q \in SeqsUpTo(InSteps, MaxSteps)}

PathDatas == [userId : UserIds, chatId : ChatIds, title : Titles, steps : StepsInputs]

----------------------------------------------------------------------------
(* Persistence collaborator: the LearningProgress model *)

\* Model.findOne({ _id, userId })
findOne(store, progressId, userId) ==
  IF progressId \in DOMAIN store /\ store[progressId].userId = userId
  THEN progressId ELSE 0

\* Model.findById(id)
findById(store, progressId) ==
  IF progressId \in DOMAIN store THEN progressId ELSE 0

\* a save that leaves the userId of a stored document as it is
save_KeepOwner(store, progressId, doc) ==
  [i \in DOMAIN store \cup {progressId} |->
     IF i # progressId THEN store[i]
     ELSE IF progressId \in DOMAIN store
          THEN [doc EXCEPT !.userId = store[progressId].userId]
          ELSE doc]

\* document.save() of a loaded or new document: one atomic write of the aggregate
save(store, progressId, doc) ==
  [i \in DOMAIN store \cup {progressId} |-> IF i = progressId THEN doc ELSE store[i]]

\* the counter written as an increment on what is stored
saveLoaded_Inc(store, progressId, loaded, doc) ==
  IF progressId \notin DOMAIN store
  THEN store
  ELSE LET cur == store[progressId]
           pick(f) == IF doc[f] # loaded[f] THEN doc[f] ELSE cur[f]
           pickStep(i, f) == IF doc.steps[i][f] # loaded.steps[i][f]
                             THEN doc.steps[i][f] ELSE cur.steps[i][f]
           count == cur.completedSteps + (doc.completedSteps - loaded.completedSteps)
       IN save(store, progressId,
               [cur EXCEPT !.userId = pick("userId"),
                           !.completedSteps = count,
                           !.isCompleted = (count = cur.totalSteps),
                           !.updatedAt = pick("updatedAt"),
                           !.lastAccessedAt = pick("lastAccessedAt"),
                           !.steps = [i \in 1..Len(cur.steps) |->
                                        [stepId |-> cur.steps[i].stepId,
                                         completed |-> pickStep(i, "completed"),
                                         completedAt |-> pickStep(i, "completedAt"),
                                         notes |-> pickStep(i, "notes")]]])

\* document.save() of a document loaded earlier: the paths modified since it
\* was loaded are $set on what is stored now, the others are not sent; when
\* nothing was written in between this is save of the whole document.  A
\* document deleted in between is not written back.
saveLoaded(store, progressId, loaded, doc) ==
  IF progressId \notin DOMAIN store
  THEN store
  ELSE LET cur == store[progressId]
           pick(f) == IF doc[f] # loaded[f] THEN doc[f] ELSE cur[f]
           pickStep(i, f) == IF doc.steps[i][f] # loaded.steps[i][f]
                             THEN doc.steps[i][f] ELSE cur.steps[i][f]
       IN save(store, progressId,
               [cur EXCEPT !.userId = pick("userId"),
                           !.completedSteps = pick("completedSteps"),
                           !.isCompleted = pick("isCompleted"),
                           !.updatedAt = pick("updatedAt"),
                           !.lastAccessedAt = pick("lastAccessedAt"),
                           !.steps = [i \in 1..Len(cur.steps) |->
                                        [stepId |-> cur.steps[i].stepId,
                                         completed |-> pickStep(i, "completed"),
                                         completedAt |-> pickStep(i, "completedAt"),
                                         notes |-> pickStep(i, "notes")]]])

\* schema validation run by save(): required paths of the document
schemaValid(doc) ==
  /\ Truthy(doc.userId)
  /\ doc.chatId # ""
  /\ doc.title # ""
  /\ \A i \in 1..Len(doc.steps) : doc.steps[i].stepId # NoId

----------------------------------------------------------------------------
(* LearningService *)

Max(a, b) == IF a >= b THEN a ELSE b

\* learningPath.steps.findIndex(s => s.stepId === stepId), 1-based; 0 for -1
findIndex(steps, stepId) ==
  IF \E i \in 1..Len(steps) : steps[i].stepId = stepId
  THEN CHOOSE i \in 1..Len(steps) :
         /\ steps[i].stepId = stepId
         /\ \A j \in 1..(i - 1) : steps[j].stepId # stepId
  ELSE 0

\* the strict match alone: no session-tolerant and no fallback strategy
getLearningPathById_StrictOnly(store, progressId, userId) ==
  IF findOne(store, progressId, userId) # 0
  THEN [found |-> progressId, via |-> "strict", store |-> store, writes |-> 0]
  ELSE [found |-> 0, via |-> "none", store |-> store, writes |-> 0]

\* the fallback strategy without its save of the new userId
getLearningPathById_NoRepair(store, progressId, userId) ==
  IF findOne(store, progressId, userId) # 0
  THEN [found |-> progressId, via |-> "strict", store |-> store, writes |-> 0]
  ELSE IF Truthy(userId) /\ startsWith(userId, SessionPrefix)
          /\ findById(store, progressId) # 0
  THEN [found |-> progressId, via |-> "session", store |-> store, writes |-> 0]
  ELSE IF findById(store, progressId) # 0
  THEN [found |-> progressId, via |-> "fallback", store |-> store, writes |-> 0]
  ELSE [found |-> 0, via |-> "none", store |-> store, writes |-> 0]

\* the cascade without the session-tolerant strategy
getLearningPathById_NoSession(store, progressId, userId) ==
  IF findOne(store, progressId, userId) # 0
  THEN [found |-> progressId, via |-> "strict", store |-> store, writes |-> 0]
  ELSE IF findById(store, progressId) # 0
  THEN IF Truthy(userId)
       THEN [found |-> progressId, via |-> "fallback",
             store |-> save(store, progressId,
                            [store[progressId] EXCEPT !.userId = userId]),
             writes |-> 1]
       ELSE [found |-> progressId, via |-> "fallback", store |-> store, writes |-> 0]
  ELSE [found |-> 0, via |-> "none", store |-> store, writes |-> 0]

\* the fallback strategy saving the caller id without testing it
getLearningPathById_AlwaysRepair(store, progressId, userId) ==
  IF findOne(store, progressId, userId) # 0
  THEN [found |-> progressId, via |-> "strict", store |-> store, writes |-> 0]
  ELSE IF Truthy(userId) /\ startsWith(userId, SessionPrefix)
          /\ findById(store, progressId) # 0
  THEN [found |-> progressId, via |-> "session", store |-> store, writes |-> 0]
  ELSE IF findById(store, progressId) # 0
  THEN [found |-> progressId, via |-> "fallback",
        store |-> save(store, progressId,
                       [store[progressId] EXCEPT !.userId = userId]),
        writes |-> 1]
  ELSE [found |-> 0, via |-> "none", store |-> store, writes |-> 0]

\* The lookup cascade.  found = 0 stands for the thrown 'Learning path not found'.
\* via names the strategy that returned the document, writes counts the saves.
getLearningPathById(store, progressId, userId) ==
  IF findOne(store, progressId, userId) # 0
  THEN [found |-> progressId, via |-> "strict", store |-> store, writes |-> 0]
  ELSE IF Truthy(userId) /\ startsWith(userId, SessionPrefix)
          /\ findById(store, progressId) # 0
  THEN [found |-> progressId, via |-> "session", store |-> store, writes |-> 0]
  ELSE IF findById(store, progressId) # 0
  THEN IF Truthy(userId)
       THEN [found |-> progressId, via |-> "fallback",
             store |-> save(store, progressId,
                            [store[progressId] EXCEPT !.userId = userId]),
             writes |-> 1]
       ELSE [found |-> progressId, via |-> "fallback", store |-> store, writes |-> 0]
  ELSE [found |-> 0, via |-> "none", store |-> store, writes |-> 0]

\* throws unless userId, chatId, title are truthy and steps is an array
validateLearningPathData(pathData) ==
  /\ Truthy(pathData.userId)
  /\ pathData.chatId # ""
  /\ pathData.title # ""
  /\ pathData.steps.kind # "missing"
  /\ pathData.steps.kind = "array"

\* the supplied record copied as it is
formatStep_KeepCompleted(step) ==
  [stepId |-> step.id, completed |-> step.completed, completedAt |-> NoDate,
   notes |-> NoNotes]

\* steps.map(step => ({ stepId: step.id, completed: false, ... }));
\* title, description, category and difficulty are copied and never read or
\* written again: they are left out of the record
formatStep(step) ==
  [stepId |-> step.id, completed |-> FALSE, completedAt |-> NoDate, notes |-> NoNotes]

\* completedSteps taken from the completed flags of the supplied records
formatLearningPathData_CountSupplied(pathData, t) ==
  [userId |-> pathData.userId,
   chatId |-> pathData.chatId,
   title |-> pathData.title,
   steps |-> [i \in 1..Len(pathData.steps.items) |-> formatStep(pathData.steps.items[i])],
   totalSteps |-> Len(pathData.steps.items),
   completedSteps |->
     Cardinality({i \in 1..Len(pathData.steps.items) : pathData.steps.items[i].completed}),
   isCompleted |-> FALSE,
   createdAt |-> t,
   updatedAt |-> t,
   lastAccessedAt |-> t]

\* isCompleted is not set here: the schema default (false) applies
formatLearningPathData(pathData, t) ==
  [userId |-> pathData.userId,
   chatId |-> pathData.chatId,
   title |-> pathData.title,
   steps |-> [i \in 1..Len(pathData.steps.items) |-> formatStep(pathData.steps.items[i])],
   totalSteps |-> Len(pathData.steps.items),
   completedSteps |-> 0,
   isCompleted |-> FALSE,
   createdAt |-> t,
   updatedAt |-> t,
   lastAccessedAt |-> t]


\* completedSteps - 1 without Math.max(0, ...)
manageStepCompletion_NoClamp(learningPath, stepIndex, completed, t) ==
  LET step == learningPath.steps[stepIndex]
      wasCompleted == step.completed
      newStep == IF completed /\ ~wasCompleted
                 THEN [step EXCEPT !.completed = completed, !.completedAt = t]
                 ELSE IF ~completed /\ wasCompleted
                 THEN [step EXCEPT !.completed = completed, !.completedAt = NoDate]
                 ELSE [step EXCEPT !.completed = completed]
      newCount == IF completed /\ ~wasCompleted
                  THEN learningPath.completedSteps + 1
                  ELSE IF ~completed /\ wasCompleted
                  THEN learningPath.completedSteps - 1
                  ELSE learningPath.completedSteps
  IN [learningPath EXCEPT !.steps[stepIndex] = newStep,
                          !.completedSteps = newCount,
                          !.isCompleted = (newCount = learningPath.totalSteps)]

\* the flag is written to every step
manageStepCompletion_AllSteps(learningPath, stepIndex, completed, t) ==
  LET step == learningPath.steps[stepIndex]
      wasCompleted == step.completed
      newCount == IF completed /\ ~wasCompleted
                  THEN learningPath.completedSteps + 1
                  ELSE IF ~completed /\ wasCompleted
                  THEN Max(0, learningPath.completedSteps - 1)
                  ELSE learningPath.completedSteps
  IN [learningPath EXCEPT !.steps = [k \in 1..Len(learningPath.steps) |->
                                       [learningPath.steps[k] EXCEPT
                                          !.completed = completed,
                                          !.completedAt = IF completed THEN t ELSE NoDate]],
                          !.completedSteps = newCount,
                          !.isCompleted = (newCount = learningPath.totalSteps)]

\* completedAt is kept when the step is un-completed
manageStepCompletion_KeepDate(learningPath, stepIndex, completed, t) ==
  LET step == learningPath.steps[stepIndex]
      wasCompleted == step.completed
      newStep == IF completed /\ ~wasCompleted
                 THEN [step EXCEPT !.completed = completed, !.completedAt = t]
                 ELSE [step EXCEPT !.completed = completed]
      newCount == IF completed /\ ~wasCompleted
                  THEN learningPath.completedSteps + 1
                  ELSE IF ~completed /\ wasCompleted
                  THEN Max(0, learningPath.completedSteps - 1)
                  ELSE learningPath.completedSteps
  IN [learningPath EXCEPT !.steps[stepIndex] = newStep,
                          !.completedSteps = newCount,
                          !.isCompleted = (newCount = learningPath.totalSteps)]

\* counts every request to complete, whatever the step was before
manageStepCompletion_NoWasCheck(learningPath, stepIndex, completed, t) ==
  LET step == learningPath.steps[stepIndex]
      wasCompleted == step.completed
      newStep == IF completed
                 THEN [step EXCEPT !.completed = completed, !.completedAt = t]
                 ELSE [step EXCEPT !.completed = completed, !.completedAt = NoDate]
      newCount == IF completed
                  THEN learningPath.completedSteps + 1
                  ELSE IF wasCompleted
                  THEN Max(0, learningPath.completedSteps - 1)
                  ELSE learningPath.completedSteps
  IN [learningPath EXCEPT !.steps[stepIndex] = newStep,
                          !.completedSteps = newCount,
                          !.isCompleted = (newCount = learningPath.totalSteps)]

\* never counts down
manageStepCompletion_NoDecrement(learningPath, stepIndex, completed, t) ==
  LET step == learningPath.steps[stepIndex]
      wasCompleted == step.completed
      newStep == IF completed /\ ~wasCompleted
                 THEN [step EXCEPT !.completed = completed, !.completedAt = t]
                 ELSE IF ~completed /\ wasCompleted
                 THEN [step EXCEPT !.completed = completed, !.completedAt = NoDate]
                 ELSE [step EXCEPT !.completed = completed]
      newCount == IF completed /\ ~wasCompleted
                  THEN learningPath.completedSteps + 1
                  ELSE learningPath.completedSteps
  IN [learningPath EXCEPT !.steps[stepIndex] = newStep,
                          !.completedSteps = newCount,
                          !.isCompleted = (newCount = learningPath.totalSteps)]

\* isCompleted computed from the counter as it was before the update
manageStepCompletion_StaleCount(learningPath, stepIndex, completed, t) ==
  LET step == learningPath.steps[stepIndex]
      wasCompleted == step.completed
      newStep == IF completed /\ ~wasCompleted
                 THEN [step EXCEPT !.completed = completed, !.completedAt = t]
                 ELSE IF ~completed /\ wasCompleted
                 THEN [step EXCEPT !.completed = completed, !.completedAt = NoDate]
                 ELSE [step EXCEPT !.completed = completed]
      newCount == IF completed /\ ~wasCompleted
                  THEN learningPath.completedSteps + 1
                  ELSE IF ~completed /\ wasCompleted
                  THEN Max(0, learningPath.completedSteps - 1)
                  ELSE learningPath.completedSteps
  IN [learningPath EXCEPT !.steps[stepIndex] = newStep,
                          !.completedSteps = newCount,
                          !.isCompleted =
                             (learningPath.completedSteps = learningPath.totalSteps)]

\* "=" for "===": the comparison of the counters written as an assignment
manageStepCompletion_AssignTotal(learningPath, stepIndex, completed, t) ==
  LET step == learningPath.steps[stepIndex]
      wasCompleted == step.completed
      newStep == IF completed /\ ~wasCompleted
                 THEN [step EXCEPT !.completed = completed, !.completedAt = t]
                 ELSE IF ~completed /\ wasCompleted
                 THEN [step EXCEPT !.completed = completed, !.completedAt = NoDate]
                 ELSE [step EXCEPT !.completed = completed]
      newCount == IF completed /\ ~wasCompleted
                  THEN learningPath.completedSteps + 1
                  ELSE IF ~completed /\ wasCompleted
                  THEN Max(0, learningPath.completedSteps - 1)
                  ELSE learningPath.completedSteps
  IN [learningPath EXCEPT !.steps[stepIndex] = newStep,
                          !.completedSteps = newCount,
                          !.totalSteps = newCount,
                          !.isCompleted = (newCount # 0)]

manageStepCompletion(learningPath, stepIndex, completed, t) ==
  LET step == learningPath.steps[stepIndex]
      wasCompleted == step.completed
      newStep == IF completed /\ ~wasCompleted
                 THEN [step EXCEPT !.completed = completed, !.completedAt = t]
                 ELSE IF ~completed /\ wasCompleted
                 THEN [step EXCEPT !.completed = completed, !.completedAt = NoDate]
                 ELSE [step EXCEPT !.completed = completed]
      newCount == IF completed /\ ~wasCompleted
                  THEN learningPath.completedSteps + 1
                  ELSE IF ~completed /\ wasCompleted
                  THEN Max(0, learningPath.completedSteps - 1)
                  ELSE learningPath.completedSteps
  IN [learningPath EXCEPT !.steps[stepIndex] = newStep,
                          !.completedSteps = newCount,
                          !.isCompleted = (newCount = learningPath.totalSteps)]

\* learningPath.updatedAt = new Date(); learningPath.lastAccessedAt = new Date()
touch(learningPath, t) ==
  [learningPath EXCEPT !.updatedAt = t, !.lastAccessedAt = t]

\* the timestamps refreshed and saved before the step is looked for
updateStepCompletion_TouchFirst(store, progressId, stepId, completed, userId, t) ==
  LET r == getLearningPathById(store, progressId, userId)
  IN IF r.found = 0
     THEN [outcome |-> "NotFound", store |-> r.store, via |-> r.via, writes |-> r.writes]
     ELSE LET learningPath == touch(r.store[progressId], t)
              stepIndex == findIndex(learningPath.steps, stepId)
          IN IF stepIndex = 0
             THEN [outcome |-> "StepNotFound",
                   store |-> save(r.store, progressId, learningPath),
                   via |-> r.via, writes |-> r.writes + 1]
             ELSE [outcome |-> "ok",
                   store |-> save(r.store, progressId,
                                  manageStepCompletion(learningPath, stepIndex,
                                                       completed, t)),
                   via |-> r.via, writes |-> r.writes + 1]

updateStepCompletion(store, progressId, stepId, completed, userId, t) ==
  LET r == getLearningPathById(store, progressId, userId)
  IN IF r.found = 0
     THEN [outcome |-> "NotFound", store |-> r.store, via |-> r.via, writes |-> r.writes]
     ELSE LET learningPath == r.store[progressId]
              stepIndex == findIndex(learningPath.steps, stepId)
          IN IF stepIndex = 0
             THEN [outcome |-> "StepNotFound", store |-> r.store, via |-> r.via,
                   writes |-> r.writes]
             ELSE [outcome |-> "ok",
                   store |-> save(r.store, progressId,
                                  touch(manageStepCompletion(learningPath, stepIndex,
                                                             completed, t), t)),
                   via |-> r.via, writes |-> r.writes + 1]

\* notes are written only where the step has none yet
addStepNotes_KeepFirst(store, progressId, stepId, notes, userId, t) ==
  LET r == getLearningPathById(store, progressId, userId)
  IN IF r.found = 0
     THEN [outcome |-> "NotFound", store |-> r.store, via |-> r.via, writes |-> r.writes]
     ELSE LET learningPath == r.store[progressId]
              stepIndex == findIndex(learningPath.steps, stepId)
          IN IF stepIndex = 0
             THEN [outcome |-> "StepNotFound", store |-> r.store, via |-> r.via,
                   writes |-> r.writes]
             ELSE [outcome |-> "ok",
                   store |-> save(r.store, progressId,
                                  touch(IF learningPath.steps[stepIndex].notes = NoNotes
                                        THEN [learningPath EXCEPT
                                                !.steps[stepIndex].notes = notes]
                                        ELSE learningPath, t)),
                   via |-> r.via, writes |-> r.writes + 1]

addStepNotes(store, progressId, stepId, notes, userId, t) ==
  LET r == getLearningPathById(store, progressId, userId)
  IN IF r.found = 0
     THEN [outcome |-> "NotFound", store |-> r.store, via |-> r.via, writes |-> r.writes]
     ELSE LET learningPath == r.store[progressId]
              stepIndex == findIndex(learningPath.steps, stepId)
          IN IF stepIndex = 0
             THEN [outcome |-> "StepNotFound", store |-> r.store, via |-> r.via,
                   writes |-> r.writes]
             ELSE [outcome |-> "ok",
                   store |-> save(r.store, progressId,
                                  touch([learningPath EXCEPT
                                           !.steps[stepIndex].notes = notes], t)),
                   via |-> r.via, writes |-> r.writes + 1]

\* The earlier version of the two mutation methods, with the lookup cascade
\* written inline: the document as it is in memory after the three strategies
\* (doc), the strategy that found it (via); the assignment of userId in the
\* third strategy is not saved here
inlineCascade(store, progressId, userId) ==
  IF findOne(store, progressId, userId) # 0
  THEN [found |-> progressId, via |-> "strict", doc |-> store[progressId]]
  ELSE IF Truthy(userId) /\ startsWith(userId, SessionPrefix)
          /\ findById(store, progressId) # 0
  THEN [found |-> progressId, via |-> "session", doc |-> store[progressId]]
  ELSE IF findById(store, progressId) # 0
  THEN [found |-> progressId, via |-> "fallback",
        doc |-> IF Truthy(userId)
                THEN [store[progressId] EXCEPT !.userId = userId]
                ELSE store[progressId]]
  ELSE [found |-> 0, via |-> "none", doc |-> <<>>]

\* updateStepCompletion, earlier version: cascade, step search, the change of
\* the step and the counters, the timestamps, one save
updateStepCompletionInline(store, progressId, stepId, completed, userId, t) ==
  LET r == inlineCascade(store, progressId, userId)
  IN IF r.found = 0
     THEN [outcome |-> "NotFound", store |-> store, via |-> r.via, writes |-> 0]
     ELSE LET learningPath == r.doc
              stepIndex == findIndex(learningPath.steps, stepId)
          IN IF stepIndex = 0
             THEN [outcome |-> "StepNotFound", store |-> store, via |-> r.via,
                   writes |-> 0]
             ELSE LET wasCompleted == learningPath.steps[stepIndex].completed
                      completedAt ==
                        IF completed /\ ~wasCompleted THEN t
                        ELSE IF ~completed /\ wasCompleted THEN NoDate
                        ELSE learningPath.steps[stepIndex].completedAt
                      completedSteps ==
                        IF completed /\ ~wasCompleted
                        THEN learningPath.completedSteps + 1
                        ELSE IF ~completed /\ wasCompleted
                        THEN Max(0, learningPath.completedSteps - 1)
                        ELSE learningPath.completedSteps
                  IN [outcome |-> "ok",
                      store |-> save(store, progressId,
                                     [learningPath EXCEPT
                                        !.steps[stepIndex].completed = completed,
                                        !.steps[stepIndex].completedAt = completedAt,
                                        !.completedSteps = completedSteps,
                                        !.isCompleted =
                                           (completedSteps = learningPath.totalSteps),
                                        !.updatedAt = t,
                                        !.lastAccessedAt = t]),
                      via |-> r.via, writes |-> 1]

\* the earlier addStepNotes saving without the two timestamps
addStepNotesInline_NoTouch(store, progressId, stepId, notes, userId, t) ==
  LET r == inlineCascade(store, progressId, userId)
  IN IF r.found = 0
     THEN [outcome |-> "NotFound", store |-> store, via |-> r.via, writes |-> 0]
     ELSE LET learningPath == r.doc
              stepIndex == findIndex(learningPath.steps, stepId)
          IN IF stepIndex = 0
             THEN [outcome |-> "StepNotFound", store |-> store, via |-> r.via,
                   writes |-> 0]
             ELSE [outcome |-> "ok",
                   store |-> save(store, progressId,
                                  [learningPath EXCEPT
                                     !.steps[stepIndex].notes = notes]),
                   via |-> r.via, writes |-> 1]

\* addStepNotes, earlier version
addStepNotesInline(store, progressId, stepId, notes, userId, t) ==
  LET r == inlineCascade(store, progressId, userId)
  IN IF r.found = 0
     THEN [outcome |-> "NotFound", store |-> store, via |-> r.via, writes |-> 0]
     ELSE LET learningPath == r.doc
              stepIndex == findIndex(learningPath.steps, stepId)
          IN IF stepIndex = 0
             THEN [outcome |-> "StepNotFound", store |-> store, via |-> r.via,
                   writes |-> 0]
             ELSE [outcome |-> "ok",
                   store |-> save(store, progressId,
                                  [learningPath EXCEPT
                                     !.steps[stepIndex].notes = notes,
                                     !.updatedAt = t,
                                     !.lastAccessedAt = t]),
                   via |-> r.via, writes |-> 1]

\* BaseService.delete: deleteOne, 'Item not found' when nothing was deleted
\* the model's deleteMany({}): every document goes
deleteOne_All(store, progressId) ==
  IF progressId \in DOMAIN store THEN <<>> ELSE store

\* Model.deleteOne({ _id })
deleteOne(store, progressId) ==
  [i \in DOMAIN store \ {progressId} |-> store[i]]

\* BaseService.delete: deleteOne, 'Item not found' when nothing was deleted;
\* deletedId is the id of { success: true, deletedId: id }, 0 when it threw
delete(store, id) ==
  IF id \in DOMAIN store
  THEN [outcome |-> "ok", store |-> deleteOne(store, id), deletedId |-> id]
  ELSE [outcome |-> "ItemNotFound", store |-> store, deletedId |-> 0]

deleteLearningPath(store, progressId, userId) ==
  LET r == getLearningPathById(store, progressId, userId)
  IN IF r.found = 0
     THEN [outcome |-> "NotFound", store |-> r.store, via |-> r.via,
           writes |-> r.writes, deletedId |-> 0]
     ELSE LET d == delete(r.store, progressId)
          IN [outcome |-> d.outcome, store |-> d.store, via |-> r.via,
              writes |-> r.writes + 1, deletedId |-> d.deletedId]

\* BaseService.create: new this.model(data); item.save() validates, then inserts
create(store, id, data) ==
  IF schemaValid(data)
  THEN [outcome |-> "ok", store |-> save(store, id, data)]
  ELSE [outcome |-> "ValidationError", store |-> store]

createLearningPath(store, id, pathData, t) ==
  IF ~validateLearningPathData(pathData)
  THEN [outcome |-> "ValidationError", store |-> store]
  ELSE create(store, id, formatLearningPathData(pathData, t))

----------------------------------------------------------------------------
(* LearningService when a call to the model rejects *)

\* fault: which call to the model, counted within one service call, rejects
\* with the error DbError; 0 for none.  No service method makes more than
\* four calls (findOne, findById, the repair save, the final save).
Faults == 0..4

\* a service call that ended: calls = the calls made to the model,
\* failed = one of them rejected
Ended(outcome, found, via, store, writes, calls, failed) ==
  [outcome |-> outcome, found |-> found, via |-> via, store |-> store,
   writes |-> writes, calls |-> calls, failed |-> failed]

\* the lookup cascade; every await of the model can reject, and the catch
\* block rethrows what it caught
FaultyGetLearningPathById(store, progressId, userId, fault) ==
  IF fault = 1
  THEN Ended("DbError", 0, "none", store, 0, 1, TRUE)
  ELSE IF findOne(store, progressId, userId) # 0
  THEN Ended("ok", progressId, "strict", store, 0, 1, FALSE)
  ELSE IF Truthy(userId) /\ startsWith(userId, SessionPrefix)
  THEN IF fault = 2
       THEN Ended("DbError", 0, "none", store, 0, 2, TRUE)
       ELSE IF findById(store, progressId) # 0
       THEN Ended("ok", progressId, "session", store, 0, 2, FALSE)
       ELSE IF fault = 3
       THEN Ended("DbError", 0, "none", store, 0, 3, TRUE)
       ELSE Ended("NotFound", 0, "none", store, 0, 3, FALSE)
  ELSE IF fault = 2
       THEN Ended("DbError", 0, "none", store, 0, 2, TRUE)
       ELSE IF findById(store, progressId) = 0
       THEN Ended("NotFound", 0, "none", store, 0, 2, FALSE)
       ELSE IF ~Truthy(userId)
       THEN Ended("ok", progressId, "fallback", store, 0, 2, FALSE)
       ELSE IF fault = 3
       THEN Ended("DbError", 0, "fallback", store, 0, 3, TRUE)
       ELSE Ended("ok", progressId, "fallback",
                  save(store, progressId, [store[progressId] EXCEPT !.userId = userId]),
                  1, 3, FALSE)

\* a rejected final save that has written the steps and not the counters
FaultyUpdateStepCompletion_PartialSave(store, progressId, stepId, completed, userId, t, fault) ==
  LET r == FaultyGetLearningPathById(store, progressId, userId, fault)
  IN IF r.outcome # "ok"
     THEN r
     ELSE LET learningPath == r.store[progressId]
              stepIndex == findIndex(learningPath.steps, stepId)
              updated == touch(manageStepCompletion(learningPath, stepIndex, completed, t), t)
          IN IF stepIndex = 0
             THEN Ended("StepNotFound", progressId, r.via, r.store, r.writes, r.calls, FALSE)
             ELSE IF fault = r.calls + 1
             THEN Ended("DbError", progressId, r.via,
                        save(r.store, progressId,
                             [learningPath EXCEPT !.steps = updated.steps]),
                        r.writes, r.calls + 1, TRUE)
             ELSE Ended("ok", progressId, r.via, save(r.store, progressId, updated),
                        r.writes + 1, r.calls + 1, FALSE)

\* the identity repair kept in memory and written by the final save only
FaultyUpdateStepCompletion_RepairWithMutation(store, progressId, stepId, completed, userId, t, fault) ==
  LET r == FaultyGetLearningPathById(store, progressId, userId, fault)
  IN IF r.outcome # "ok"
     THEN r
     ELSE LET learningPath == r.store[progressId]
              stepIndex == findIndex(learningPath.steps, stepId)
          IN IF stepIndex = 0
             THEN Ended("StepNotFound", progressId, r.via, store, 0, r.calls, FALSE)
             ELSE IF fault = r.calls + 1
             THEN Ended("DbError", progressId, r.via, store, 0, r.calls + 1, TRUE)
             ELSE Ended("ok", progressId, r.via,
                        save(store, progressId,
                             touch(manageStepCompletion(learningPath, stepIndex,
                                                        completed, t), t)),
                        1, r.calls + 1, FALSE)

FaultyUpdateStepCompletion(store, progressId, stepId, completed, userId, t, fault) ==
  LET r == FaultyGetLearningPathById(store, progressId, userId, fault)
  IN IF r.outcome # "ok"
     THEN r
     ELSE LET learningPath == r.store[progressId]
              stepIndex == findIndex(learningPath.steps, stepId)
          IN IF stepIndex = 0
             THEN Ended("StepNotFound", progressId, r.via, r.store, r.writes, r.calls, FALSE)
             ELSE IF fault = r.calls + 1
             THEN Ended("DbError", progressId, r.via, r.store, r.writes, r.calls + 1, TRUE)
             ELSE Ended("ok", progressId, r.via,
                        save(r.store, progressId,
                             touch(manageStepCompletion(learningPath, stepIndex,
                                                        completed, t), t)),
                        r.writes + 1, r.calls + 1, FALSE)

FaultyAddStepNotes(store, progressId, stepId, notes, userId, t, fault) ==
  LET r == FaultyGetLearningPathById(store, progressId, userId, fault)
  IN IF r.outcome # "ok"
     THEN r
     ELSE LET learningPath == r.store[progressId]
              stepIndex == findIndex(learningPath.steps, stepId)
          IN IF stepIndex = 0
             THEN Ended("StepNotFound", progressId, r.via, r.store, r.writes, r.calls, FALSE)
             ELSE IF fault = r.calls + 1
             THEN Ended("DbError", progressId, r.via, r.store, r.writes, r.calls + 1, TRUE)
             ELSE Ended("ok", progressId, r.via,
                        save(r.store, progressId,
                             touch([learningPath EXCEPT
                                      !.steps[stepIndex].notes = notes], t)),
                        r.writes + 1, r.calls + 1, FALSE)

\* the lookup, then BaseService.delete
FaultyDeleteLearningPath(store, progressId, userId, fault) ==
  LET r == FaultyGetLearningPathById(store, progressId, userId, fault)
  IN IF r.outcome # "ok"
     THEN r
     ELSE IF fault = r.calls + 1
     THEN Ended("DbError", progressId, r.via, r.store, r.writes, r.calls + 1, TRUE)
     ELSE LET d == delete(r.store, progressId)
          IN Ended(d.outcome, progressId, r.via, d.store, r.writes + 1, r.calls + 1, FALSE)

\* validation, then BaseService.create: item.save() is the one call
FaultyCreateLearningPath(store, id, pathData, t, fault) ==
  IF ~validateLearningPathData(pathData)
  THEN Ended("ValidationError", 0, "none", store, 0, 0, FALSE)
  ELSE IF fault = 1
  THEN Ended("DbError", 0, "none", store, 0, 1, TRUE)
  ELSE LET c == create(store, id, formatLearningPathData(pathData, t))
       IN Ended(c.outcome, IF c.outcome = "ok" THEN id ELSE 0, "none", c.store,
                IF c.outcome = "ok" THEN 1 ELSE 0, 1, FALSE)

\* page and limit of a listing request
Limits == {1, 2}
Pages == {1, 2}

\* the ids of the paths of userId, updatedAt descending; equal updatedAt in
\* id order
RECURSIVE SortedByUpdatedAt(_, _)
SortedByUpdatedAt(store, ids) ==
  IF ids = {} THEN <<>>
  ELSE LET first == CHOOSE i \in ids :
                      \A j \in ids :
                        \/ store[i].updatedAt > store[j].updatedAt
                        \/ store[i].updatedAt = store[j].updatedAt /\ i <= j
       IN <<first>> \o SortedByUpdatedAt(store, ids \ {first})

\* skip(page * limit)
getAll_SkipPage(store, userId, limit, page, fault) ==
  LET matching == {i \in DOMAIN store : store[i].userId = userId}
      sorted == SortedByUpdatedAt(store, matching)
      skip == page * limit
      total == Cardinality(matching)
  IN IF fault = 1
     THEN [outcome |-> "DbError", items |-> <<>>, total |-> 0, pages |-> 0,
           calls |-> 1, failed |-> TRUE]
     ELSE IF fault = 2
     THEN [outcome |-> "DbError", items |-> <<>>, total |-> 0, pages |-> 0,
           calls |-> 2, failed |-> TRUE]
     ELSE [outcome |-> "ok",
           items |-> SubSeq(sorted, skip + 1, Max(skip, IF skip + limit <= Len(sorted)
                                                        THEN skip + limit
                                                        ELSE Len(sorted))),
           total |-> total,
           pages |-> (total + limit - 1) \div limit,
           calls |-> 2, failed |-> FALSE]

\* BaseService.getAll({ userId }, limit, page): find().sort().skip().limit(),
\* then countDocuments()
getAll(store, userId, limit, page, fault) ==
  LET matching == {i \in DOMAIN store : store[i].userId = userId}
      sorted == SortedByUpdatedAt(store, matching)
      skip == (page - 1) * limit
      total == Cardinality(matching)
  IN IF fault = 1
     THEN [outcome |-> "DbError", items |-> <<>>, total |-> 0, pages |-> 0,
           calls |-> 1, failed |-> TRUE]
     ELSE IF fault = 2
     THEN [outcome |-> "DbError", items |-> <<>>, total |-> 0, pages |-> 0,
           calls |-> 2, failed |-> TRUE]
     ELSE [outcome |-> "ok",
           items |-> SubSeq(sorted, skip + 1, Max(skip, IF skip + limit <= Len(sorted)
                                                        THEN skip + limit
                                                        ELSE Len(sorted))),
           total |-> total,
           pages |-> (total + limit - 1) \div limit,
           calls |-> 2, failed |-> FALSE]

\* getAll's error is caught and a new Error('Failed to fetch learning paths')
\* is thrown in its place
getUserLearningPaths(store, userId, limit, page, fault) ==
  LET result == getAll(store, userId, limit, page, fault)
  IN IF result.outcome # "ok"
     THEN [result EXCEPT !.outcome = "FailedToFetch"]
     ELSE result

----------------------------------------------------------------------------
(* StepExtractor: LearningService.extractLearningSteps *)

\* A text is a tuple of one-character strings; the regular expressions are
\* computed on it as the engine does: leftmost match, greedy quantifiers given
\* back one character at a time, alternatives in the order written.
NL == "\n"
Digit == {"0", "1", "2", "3", "4", "5", "6", "7", "8", "9"}
DigitChars == <<"0", "1", "2", "3", "4", "5", "6", "7", "8", "9">>
LowerCase == <<"a", "b", "c", "d", "e", "f", "g", "h", "i", "j", "k", "l", "m",
               "n", "o", "p", "q", "r", "s", "t", "u", "v", "w", "x", "y", "z">>
UpperCase == <<"A", "B", "C", "D", "E", "F", "G", "H", "I", "J", "K", "L", "M",
               "N", "O", "P", "Q", "R", "S", "T", "U", "V", "W", "X", "Y", "Z">>
Letter == {LowerCase[k] : k \in 1..26} \cup {UpperCase[k] : k \in 1..26}
\* \s
Whitespace == {" ", "\t", NL}
\* [\s:-]
Separator == Whitespace \cup {":", "-"}
\* [\.:\)\-]
ListMarks == {".", ":", ")", "-"}

\* title.length > 60, title.substring(0, 60)
TitleLimit == 60
\* numberedItems.length >= 3
MinSimpleSteps == 3

Min(a, b) == IF a <= b THEN a ELSE b

\* the lower-case letter of every upper-case letter
Lower == [c \in {UpperCase[k] : k \in 1..26} |->
            LowerCase[CHOOSE k \in 1..26 : UpperCase[k] = c]]

toLowerCase(s) ==
  [i \in 1..Len(s) |-> IF s[i] \in DOMAIN Lower THEN Lower[s[i]] ELSE s[i]]

\* String.prototype.includes
includes(s, sub) ==
  \E i \in 1..(Len(s) - Len(sub) + 1) : SubSeq(s, i, i + Len(sub) - 1) = sub

RECURSIVE Decimal(_)
Decimal(n) ==
  IF n < 10 THEN <<DigitChars[n + 1]>>
  ELSE Decimal(n \div 10) \o <<DigitChars[(n % 10) + 1]>>

\* the first position from i on whose character is not in S (Len + 1: none)
RECURSIVE RunEnd(_, _, _)
RunEnd(text, i, S) ==
  IF i > Len(text) THEN i
  ELSE IF text[i] \notin S THEN i
  ELSE RunEnd(text, i + 1, S)

\* the first position from i on that holds a line break (Len + 1: none)
RECURSIVE LineEnd(_, _)
LineEnd(text, i) ==
  IF i > Len(text) THEN i
  ELSE IF text[i] = NL THEN i
  ELSE LineEnd(text, i + 1)

\* (?:Step|Phase|Part|Level|Stage) and (?:Step|Phase|Part|Stage|Level), flag i
StepWords ==
  << <<"s", "t", "e", "p">>, <<"p", "h", "a", "s", "e">>, <<"p", "a", "r", "t">>,
     <<"l", "e", "v", "e", "l">>, <<"s", "t", "a", "g", "e">> >>
HeadingWords ==
  << <<"s", "t", "e", "p">>, <<"p", "h", "a", "s", "e">>, <<"p", "a", "r", "t">>,
     <<"s", "t", "a", "g", "e">>, <<"l", "e", "v", "e", "l">> >>

\* length of the first of the words that the text carries at b, 0 when none
WordAt(text, b, words) ==
  IF \E k \in 1..Len(words) :
       toLowerCase(SubSeq(text, b, Min(Len(text), b + Len(words[k]) - 1))) = words[k]
  THEN Len(words[CHOOSE k \in 1..Len(words) :
         /\ toLowerCase(SubSeq(text, b, Min(Len(text), b + Len(words[k]) - 1))) = words[k]
         /\ \A h \in 1..(k - 1) :
              toLowerCase(SubSeq(text, b, Min(Len(text), b + Len(words[h]) - 1))) # words[h]])
  ELSE 0

NoMatch == [end |-> 0, whole |-> <<>>, g1 |-> <<>>, g2 |-> <<>>]

\* the match that starts at s and ends at e with ([^\n]+) from t
MatchedTo(text, s, t, e, g1, two) ==
  [end |-> e,
   whole |-> SubSeq(text, s, e - 1),
   g1 |-> IF two THEN g1 ELSE SubSeq(text, t, e - 1),
   g2 |-> IF two THEN SubSeq(text, t, e - 1) ELSE <<>>]

\* the match that starts at s and ends with ([^\n]+) from t
Matched(text, s, t, g1, two) ==
  CHOOSE m \in {MatchedTo(text, s, t, e, g1, two) : e \in {LineEnd(text, t)}} : TRUE

\* positions from lo to hi where ([^\n]+) can start
TitleStarts(text, lo, hi) ==
  {t \in lo..Min(hi, Len(text)) : text[t] # NL}

\* (?:Step|Phase|Part|Level|Stage)[\s:-]+(\d+|[A-Z])[\s:-]*([^\n]+) at b:
\* the separators are all taken, for a shorter run is followed by a separator;
\* the digits, then the separators after them, are given back from the right
\* until a title character is left
KeywordBody(text, s, b) ==
  \* q: where (\d+|[A-Z]) starts; gmax: where its longest form ends
  LET w == WordAt(text, b, StepWords)
      q == RunEnd(text, b + w, Separator)
      gmax == IF q > Len(text) THEN q
              ELSE IF text[q] \in Digit THEN RunEnd(text, q, Digit)
              ELSE IF text[q] \in Letter THEN q + 1
              ELSE q
      gs == {g \in (q + 1)..gmax :
               TitleStarts(text, g, RunEnd(text, g, Separator)) # {}}
  IN IF w = 0 \/ q = b + w \/ gs = {}
     THEN NoMatch
     ELSE LET g == CHOOSE x \in gs : \A y \in gs : y <= x
              ts == TitleStarts(text, g, RunEnd(text, g, Separator))
              t == CHOOSE x \in ts : \A y \in ts : y <= x
          IN Matched(text, s, t, SubSeq(text, q, g - 1), TRUE)

\* (\d+)<mark>\s+([^\n]+) at b, the mark one of marks
NumberedBody(text, s, b, marks) ==
  LET g == RunEnd(text, b, Digit)
      ts == IF g > b /\ g <= Len(text) /\ text[g] \in marks
            THEN TitleStarts(text, g + 2, RunEnd(text, g + 1, Whitespace))
            ELSE {}
  IN IF ts = {}
     THEN NoMatch
     ELSE Matched(text, s, CHOOSE x \in ts : \A y \in ts : y <= x,
                  SubSeq(text, b, g - 1), TRUE)

\* #{1,3}\s+(?:(?:Step|Phase|Part|Stage|Level)[\s:-]+)?([^\n]+) at b: for
\* every length of \s+ from the longest, first with the keyword group, its
\* separators given back from the right, then without it
HeadingBody(text, s, b) ==
  LET h == Min(RunEnd(text, b, {"#"}), b + 3)
      smax == RunEnd(text, h, Whitespace)
      \* where the title starts when \s+ ends before t
      withWord(t) ==
        LET w == WordAt(text, t, HeadingWords)
            us == IF w = 0 THEN {}
                  ELSE TitleStarts(text, t + w + 1, RunEnd(text, t + w, Separator))
        IN IF us = {} THEN 0 ELSE CHOOSE x \in us : \A y \in us : y <= x
      ts == {t \in (h + 1)..smax :
               withWord(t) # 0 \/ TitleStarts(text, t, t) # {}}
  IN IF h = b \/ ts = {}
     THEN NoMatch
     ELSE LET t == CHOOSE x \in ts : \A y \in ts : y <= x
          IN Matched(text, s, IF withWord(t) # 0 THEN withWord(t) ELSE t,
                     <<>>, FALSE)

\* the three elements of stepPatterns and the pattern of extractSimpleSteps
KeywordPattern == "keyword"
NumberedPattern == "numbered"
HeadingPattern == "heading"
SimplePattern == "simple"

Body(pattern, text, s, b) ==
  CASE pattern = KeywordPattern -> KeywordBody(text, s, b)
    [] pattern = NumberedPattern -> NumberedBody(text, s, b, ListMarks)
    [] pattern = HeadingPattern -> HeadingBody(text, s, b)
    [] pattern = SimplePattern -> NumberedBody(text, s, b, {"."})

\* the pattern applied at s: (?:^|\n) is ^ at the start of the text, and
\* otherwise (or when the rest fails after ^) a line break at s
MatchAt(pattern, text, s) ==
  CHOOSE m \in
    {IF s = 1 /\ atStart.end # 0 THEN atStart
     ELSE IF s <= Len(text) /\ text[s] = NL THEN Body(pattern, text, s, s + 1)
     ELSE NoMatch :
       atStart \in {IF s = 1 THEN Body(pattern, text, s, s) ELSE NoMatch}} : TRUE

\* regex.exec(text) with lastIndex = from - 1: the leftmost match; a match
\* starts at the start of the text or at a line break
RECURSIVE exec(_, _, _)
exec(pattern, text, from) ==
  IF from > Len(text)
  THEN NoMatch
  ELSE CHOOSE r \in
         {IF m.end # 0 THEN m
          ELSE exec(pattern, text, LineEnd(text, from + 1)) :
            m \in {MatchAt(pattern, text, from)}} : TRUE

\* the matches that the while loop (and String.prototype.match with flag g)
\* goes through
RECURSIVE AllMatches(_, _, _)
AllMatches(pattern, text, from) ==
  CHOOSE ms \in
    {IF m.end = 0 THEN <<>> ELSE <<m>> \o AllMatches(pattern, text, m.end) :
       m \in {exec(pattern, text, from)}} : TRUE

\* String.prototype.trim
trim(s) ==
  IF \A i \in 1..Len(s) : s[i] \in Whitespace
  THEN <<>>
  ELSE SubSeq(s, RunEnd(s, 1, Whitespace),
              CHOOSE j \in 1..Len(s) :
                s[j] \notin Whitespace /\ \A h \in (j + 1)..Len(s) : s[h] \in Whitespace)

\* replace(/^\*+|\*+$/g, '')
stripAsterisks(s) ==
  IF \A i \in 1..Len(s) : s[i] = "*"
  THEN <<>>
  ELSE SubSeq(s, RunEnd(s, 1, {"*"}),
              CHOOSE j \in 1..Len(s) :
                s[j] # "*" /\ \A h \in (j + 1)..Len(s) : s[h] = "*")

\* title.length > 60 ? title.substring(0, 60) + '...' : title
truncate_Long(title) ==
  IF Len(title) > TitleLimit
  THEN SubSeq(title, 1, TitleLimit + 1) \o <<".", ".", ".">>
  ELSE title

truncate(title) ==
  IF Len(title) > TitleLimit
  THEN SubSeq(title, 1, TitleLimit) \o <<".", ".", ".">>
  ELSE title

Prerequisite == <<"p", "r", "e", "r", "e", "q", "u", "i", "s", "i", "t", "e">>
Before == <<"b", "e", "f", "o", "r", "e">>
Foundation == <<"f", "o", "u", "n", "d", "a", "t", "i", "o", "n">>
Practice == <<"p", "r", "a", "c", "t", "i", "c", "e">>
Project == <<"p", "r", "o", "j", "e", "c", "t">>
Exercise == <<"e", "x", "e", "r", "c", "i", "s", "e">>
Advanced == <<"a", "d", "v", "a", "n", "c", "e", "d">>
Expert == <<"e", "x", "p", "e", "r", "t">>
Complex == <<"c", "o", "m", "p", "l", "e", "x">>

determineCategoryFromTitle(title) ==
  CHOOSE category \in
    {IF includes(lowerTitle, Prerequisite) \/ includes(lowerTitle, Before)
        \/ includes(lowerTitle, Foundation)
     THEN "prerequisite"
     ELSE IF includes(lowerTitle, Practice) \/ includes(lowerTitle, Project)
        \/ includes(lowerTitle, Exercise)
     THEN "practice"
     ELSE IF includes(lowerTitle, Advanced) \/ includes(lowerTitle, Expert)
        \/ includes(lowerTitle, Complex)
     THEN "advanced"
     ELSE "core" : lowerTitle \in {toLowerCase(title)}} : TRUE

StepPrefix == <<"s", "t", "e", "p", "-">>
ItemPrefix == <<"i", "t", "e", "m", "-">>

\* match[2] || match[1] || `Step ${stepCount}`
rawTitle(match, stepCount) ==
  IF match.g2 # <<>> THEN match.g2
  ELSE IF match.g1 # <<>> THEN match.g1
  ELSE <<"S", "t", "e", "p", " ">> \o Decimal(stepCount)

\* the body of the while loop for the match that raised stepCount to its value
stepOf(match, stepCount) ==
  CHOOSE step \in
    {[id |-> StepPrefix \o Decimal(stepCount),
      title |-> truncate(title),
      category |-> determineCategoryFromTitle(title)] :
       title \in {stripAsterisks(trim(rawTitle(match, stepCount)))}} : TRUE

\* stepCount raised once, before the loop
stepsOf_CountOnce(pattern, text, base) ==
  CHOOSE steps \in
    {[i \in 1..Len(matches) |-> stepOf(matches[i], base + 1)] :
       matches \in {AllMatches(pattern, text, 1)}} : TRUE

\* the steps pushed while one pattern is tried, stepCount being base before
stepsOf(pattern, text, base) ==
  CHOOSE steps \in
    {[i \in 1..Len(matches) |-> stepOf(matches[i], base + i)] :
       matches \in {AllMatches(pattern, text, 1)}} : TRUE

\* item.replace(/^\d+\.\s+/, '')
stripNumber(item) ==
  LET g == RunEnd(item, 1, Digit)
  IN IF g > 1 /\ g <= Len(item) /\ item[g] = "."
        /\ RunEnd(item, g + 1, Whitespace) > g + 1
     THEN SubSeq(item, RunEnd(item, g + 1, Whitespace), Len(item))
     ELSE item

extractSimpleSteps(text) ==
  CHOOSE steps \in
    {IF Len(numberedItems) >= MinSimpleSteps
     THEN [idx \in 1..Len(numberedItems) |->
             [id |-> ItemPrefix \o Decimal(idx),
              title |-> truncate(trim(stripNumber(numberedItems[idx].whole))),
              category |-> "core"]]
     ELSE <<>> : numberedItems \in {AllMatches(SimplePattern, text, 1)}} : TRUE

\* the argument of extractLearningSteps: a string, null or undefined
Text(chars) == [kind |-> "string", chars |-> chars]
Null == [kind |-> "null", chars |-> <<>>]
Undefined == [kind |-> "undefined", chars |-> <<>>]

\* without the check of !text: text.match throws for null and undefined
extractLearningSteps_NoGuard(input) ==
  IF input.kind # "string"
  THEN <<"TypeError">>
  ELSE CHOOSE steps \in
         {IF first # <<>> THEN first
          ELSE CHOOSE rest \in
            {IF second # <<>> THEN second
             ELSE CHOOSE last3 \in
               {IF third # <<>> THEN third ELSE extractSimpleSteps(input.chars) :
                  third \in {stepsOf(HeadingPattern, input.chars, 0)}} : TRUE :
               second \in {stepsOf(NumberedPattern, input.chars, 0)}} : TRUE :
            first \in {stepsOf(KeywordPattern, input.chars, 0)}} : TRUE

\* no break after a pattern that found steps
extractLearningSteps_Merge(input) ==
  IF input.kind # "string" \/ input.chars = <<>>
  THEN <<>>
  ELSE LET text == input.chars
           first == stepsOf(KeywordPattern, text, 0)
           second == stepsOf(NumberedPattern, text, Len(first))
           third == stepsOf(HeadingPattern, text, Len(first) + Len(second))
       IN IF first \o second \o third # <<>>
          THEN first \o second \o third
          ELSE extractSimpleSteps(text)

extractLearningSteps(input) ==
  IF input.kind # "string" \/ input.chars = <<>>
  THEN <<>>
  ELSE CHOOSE steps \in
         {IF first # <<>> THEN first
          ELSE CHOOSE rest \in
            {IF second # <<>> THEN second
             ELSE CHOOSE last3 \in
               {IF third # <<>> THEN third ELSE extractSimpleSteps(input.chars) :
                  third \in {stepsOf(HeadingPattern, input.chars, 0)}} : TRUE :
               second \in {stepsOf(NumberedPattern, input.chars, 0)}} : TRUE :
            first \in {stepsOf(KeywordPattern, input.chars, 0)}} : TRUE

----------------------------------------------------------------------------
(* State machine: one request at a time *)

\* last: what the most recent request was and how it ended
NoCall == [op |-> "none", outcome |-> "none", via |-> "none", writes |-> 0]

\* inflight: the toggleStep requests that have looked their path up and have
\* not saved it yet; two requests can be under way at a time
CallIds == {"a", "b"}
Idle == [phase |-> "idle"]
NoneInFlight == [c \in CallIds |-> Idle]

\* extraction: the text handed to extractLearningSteps and, once it has
\* returned, the steps it returned
NoExtraction == [input |-> Undefined, steps |-> <<>>, done |-> FALSE]

\* The collection starts empty.  Object ids are 1..MaxPaths; the id counter
\* starts at the last of them, so one path is stored at a time and the ids
\* below it are ids of no stored path.
Init ==
  /\ paths = <<>>
  /\ nextId = MaxPaths
  /\ now = 1
  /\ last = NoCall
  /\ inflight = NoneInFlight
  /\ extraction = NoExtraction

\* the clock read by new Date()
Tick ==
  /\ now < MaxTime
  /\ now' = now + 1
  /\ UNCHANGED <<paths, nextId, last, inflight, extraction>>

Create(pathData) ==
  /\ nextId <= MaxPaths
  /\ \E r \in {createLearningPath(paths, nextId, pathData, now)} :
        /\ paths' = r.store
        /\ nextId' = IF r.outcome = "ok" THEN nextId + 1 ELSE nextId
        /\ last' = [op |-> "create", outcome |-> r.outcome, via |-> "none",
                    writes |-> IF r.outcome = "ok" THEN 1 ELSE 0]
  /\ UNCHANGED <<now, inflight, extraction>>

Locate(progressId, userId) ==
  /\ \E r \in {getLearningPathById(paths, progressId, userId)} :
        /\ paths' = r.store
        /\ last' = [op |-> "locate",
                    outcome |-> IF r.found = 0 THEN "NotFound" ELSE "ok",
                    via |-> r.via, writes |-> r.writes]
  /\ UNCHANGED <<nextId, now, inflight, extraction>>

ToggleStep(progressId, userId, stepId, completed) ==
  /\ \E r \in {updateStepCompletion(paths, progressId, stepId, completed, userId, now)} :
        /\ paths' = r.store
        /\ last' = [op |-> "toggleStep", outcome |-> r.outcome,
                    via |-> r.via, writes |-> r.writes]
  /\ UNCHANGED <<nextId, now, inflight, extraction>>

AnnotateStep(progressId, userId, stepId, notes) ==
  /\ \E r \in {addStepNotes(paths, progressId, stepId, notes, userId, now)} :
        /\ paths' = r.store
        /\ last' = [op |-> "annotateStep", outcome |-> r.outcome,
                    via |-> r.via, writes |-> r.writes]
  /\ UNCHANGED <<nextId, now, inflight, extraction>>

Delete(progressId, userId) ==
  /\ \E r \in {deleteLearningPath(paths, progressId, userId)} :
        /\ paths' = r.store
        /\ last' = [op |-> "delete", outcome |-> r.outcome,
                    via |-> r.via, writes |-> r.writes]
  /\ UNCHANGED <<nextId, now, inflight, extraction>>

\* Spec: the requests of the learning routes, all within one instant
Next ==
  \/ \E pathData \in PathDatas : Create(pathData)
  \/ \E progressId \in PathIds, userId \in UserIds : Locate(progressId, userId)
  \/ \E progressId \in PathIds, userId \in UserIds, stepId \in StepIds, completed \in BOOLEAN :
       ToggleStep(progressId, userId, stepId, completed)
  \/ \E progressId \in PathIds, userId \in UserIds, stepId \in StepIds, notes \in Notes :
       AnnotateStep(progressId, userId, stepId, notes)
  \/ \E progressId \in PathIds, userId \in UserIds : Delete(progressId, userId)

Spec == Init /\ [][Next]_vars

\* SpecClock: the same requests with the clock advancing between them, so that
\* the timestamps a request writes differ from those already stored; paths
\* of at most MaxClockSteps steps are created and one notes text is sent
NextClock ==
  \/ Tick
  \/ \E pathData \in {pd \in PathDatas : Len(pd.steps.items) <= MaxClockSteps} :
       Create(pathData)
  \/ \E progressId \in PathIds, userId \in UserIds : Locate(progressId, userId)
  \/ \E progressId \in PathIds, userId \in UserIds, stepId \in StepIds, completed \in BOOLEAN :
       ToggleStep(progressId, userId, stepId, completed)
  \/ \E progressId \in PathIds, userId \in UserIds, stepId \in StepIds :
       AnnotateStep(progressId, userId, stepId, "n1")
  \/ \E progressId \in PathIds, userId \in UserIds : Delete(progressId, userId)

SpecClock == Init /\ [][NextClock]_vars

\* a request body for a path of one step, s1
LightPathData(userId) ==
  [userId |-> userId, chatId |-> "c1", title |-> "T",
   steps |-> [kind |-> "array", items |-> <<[id |-> "s1", completed |-> FALSE]>>]]

\* SpecMulti: up to MaxPaths paths stored side by side, each of one step;
\* the id counter starts at the first id
InitMulti ==
  /\ paths = <<>>
  /\ nextId = 1
  /\ now = 1
  /\ last = NoCall
  /\ inflight = NoneInFlight
  /\ extraction = NoExtraction

NextMulti ==
  \/ \E userId \in {UserA, UserB} : Create(LightPathData(userId))
  \/ \E progressId \in PathIds, userId \in UserIds : Locate(progressId, userId)
  \/ \E progressId \in PathIds, userId \in UserIds, stepId \in StepIds, completed \in BOOLEAN :
       ToggleStep(progressId, userId, stepId, completed)
  \/ \E progressId \in PathIds, userId \in UserIds, stepId \in StepIds :
       AnnotateStep(progressId, userId, stepId, "n1")
  \/ \E progressId \in PathIds, userId \in UserIds : Delete(progressId, userId)

SpecMulti == InitMulti /\ [][NextMulti]_vars

\* the requests again, each with the call to the model that rejects
FaultyCreate(pathData, fault) ==
  /\ nextId <= MaxPaths
  /\ \E r \in {FaultyCreateLearningPath(paths, nextId, pathData, now, fault)} :
        /\ paths' = r.store
        /\ nextId' = IF r.outcome = "ok" THEN nextId + 1 ELSE nextId
        /\ last' = [op |-> "create", outcome |-> r.outcome, via |-> r.via,
                    writes |-> r.writes]
  /\ UNCHANGED <<now, inflight, extraction>>

FaultyLocate(progressId, userId, fault) ==
  /\ \E r \in {FaultyGetLearningPathById(paths, progressId, userId, fault)} :
        /\ paths' = r.store
        /\ last' = [op |-> "locate", outcome |-> r.outcome, via |-> r.via,
                    writes |-> r.writes]
  /\ UNCHANGED <<nextId, now, inflight, extraction>>

FaultyToggleStep(progressId, userId, stepId, completed, fault) ==
  /\ \E r \in {FaultyUpdateStepCompletion(paths, progressId, stepId, completed,
                                          userId, now, fault)} :
        /\ paths' = r.store
        /\ last' = [op |-> "toggleStep", outcome |-> r.outcome, via |-> r.via,
                    writes |-> r.writes]
  /\ UNCHANGED <<nextId, now, inflight, extraction>>

FaultyAnnotateStep(progressId, userId, stepId, notes, fault) ==
  /\ \E r \in {FaultyAddStepNotes(paths, progressId, stepId, notes, userId, now, fault)} :
        /\ paths' = r.store
        /\ last' = [op |-> "annotateStep", outcome |-> r.outcome, via |-> r.via,
                    writes |-> r.writes]
  /\ UNCHANGED <<nextId, now, inflight, extraction>>

FaultyDelete(progressId, userId, fault) ==
  /\ \E r \in {FaultyDeleteLearningPath(paths, progressId, userId, fault)} :
        /\ paths' = r.store
        /\ last' = [op |-> "delete", outcome |-> r.outcome, via |-> r.via,
                    writes |-> r.writes]
  /\ UNCHANGED <<nextId, now, inflight, extraction>>

\* GET /progress: the listing reads and writes nothing
List(userId, limit, page, fault) ==
  /\ \E r \in {getUserLearningPaths(paths, userId, limit, page, fault)} :
        last' = [op |-> "list", outcome |-> r.outcome, via |-> "none", writes |-> 0]
  /\ UNCHANGED <<paths, nextId, now, inflight, extraction>>

\* SpecList: up to MaxPaths paths of one step each, of two owners, toggled
\* while the clock runs, and listed
NextList ==
  \/ Tick
  \/ \E userId \in {UserA, UserB} : Create(LightPathData(userId))
  \/ \E progressId \in PathIds, userId \in {UserA, UserB}, completed \in BOOLEAN :
       ToggleStep(progressId, userId, "s1", completed)
  \/ \E userId \in {UserA, UserB}, limit \in Limits, page \in Pages :
       List(userId, limit, page, 0)

SpecList == InitMulti /\ [][NextList]_vars

\* SpecFault: one path of at most MaxClockSteps steps, one notes text, and a
\* model whose calls can reject
NextFault ==
  \/ \E pathData \in {pd \in PathDatas : Len(pd.steps.items) <= MaxClockSteps},
        fault \in Faults :
       FaultyCreate(pathData, fault)
  \/ \E progressId \in PathIds, userId \in UserIds, fault \in Faults :
       FaultyLocate(progressId, userId, fault)
  \/ \E progressId \in PathIds, userId \in UserIds, stepId \in StepIds,
        completed \in BOOLEAN, fault \in Faults :
       FaultyToggleStep(progressId, userId, stepId, completed, fault)
  \/ \E progressId \in PathIds, userId \in UserIds, stepId \in StepIds, fault \in Faults :
       FaultyAnnotateStep(progressId, userId, stepId, "n1", fault)
  \/ \E progressId \in PathIds, userId \in UserIds, fault \in Faults :
       FaultyDelete(progressId, userId, fault)
  \/ \E userId \in UserIds, limit \in Limits, page \in Pages, fault \in Faults :
       List(userId, limit, page, fault)

SpecFault == Init /\ [][NextFault]_vars

\* a request body for a path of two steps, s1 and s2
RacePathData ==
  [userId |-> UserA, chatId |-> "c1", title |-> "T",
   steps |-> [kind |-> "array", items |-> <<[id |-> "s1", completed |-> FALSE],
                                            [id |-> "s2", completed |-> FALSE]>>]]

\* updateStepCompletion up to its await of save(): the lookup (with its repair
\* write) and findIndex; the request that found path and step is under way.
\* Lost decrements let the stored counter grow without limit: requests are
\* taken while it is at most totalSteps.
ToggleLoad(c, progressId, userId, stepId, completed) ==
  /\ inflight[c].phase = "idle"
  /\ \A id \in DOMAIN paths : paths[id].completedSteps <= paths[id].totalSteps
  /\ \E r \in {getLearningPathById(paths, progressId, userId)} :
       /\ paths' = r.store
       /\ IF r.found = 0
          THEN /\ last' = [op |-> "toggleStep", outcome |-> "NotFound",
                           via |-> r.via, writes |-> r.writes]
               /\ UNCHANGED inflight
          ELSE IF findIndex(r.store[progressId].steps, stepId) = 0
          THEN /\ last' = [op |-> "toggleStep", outcome |-> "StepNotFound",
                           via |-> r.via, writes |-> r.writes]
               /\ UNCHANGED inflight
          ELSE /\ inflight' = [inflight EXCEPT ![c] =
                                 [phase |-> "loaded", progressId |-> progressId,
                                  stepIndex |-> findIndex(r.store[progressId].steps, stepId),
                                  completed |-> completed, via |-> r.via,
                                  writes |-> r.writes,
                                  loaded |-> r.store[progressId]]]
               /\ UNCHANGED last
  /\ UNCHANGED <<nextId, now, extraction>>

\* the rest of updateStepCompletion: manageStepCompletion, the timestamps and
\* save() of the document as this request loaded it
TogglePersist(c) ==
  /\ inflight[c].phase = "loaded"
  /\ \E call \in {inflight[c]} :
       /\ paths' = saveLoaded(paths, call.progressId, call.loaded,
                              touch(manageStepCompletion(call.loaded, call.stepIndex,
                                                         call.completed, now), now))
       /\ last' = [op |-> "toggleStep",
                   outcome |-> IF call.progressId \in DOMAIN paths
                               THEN "ok" ELSE "DbError",
                   via |-> call.via, writes |-> call.writes + 1]
  /\ inflight' = [inflight EXCEPT ![c] = Idle]
  /\ UNCHANGED <<nextId, now, extraction>>

\* SpecRace: toggleStep requests of the owner and of a session caller on one
\* path of two steps, each interleaving with the other at its await
NextRace ==
  \/ Create(RacePathData)
  \/ \E c \in CallIds, progressId \in PathIds, userId \in {UserA, SessionX},
        stepId \in StepIds, completed \in BOOLEAN :
       ToggleLoad(c, progressId, userId, stepId, completed)
  \/ \E c \in CallIds : TogglePersist(c)

SpecRace == Init /\ [][NextRace]_vars

\* deleteLearningPath up to its await of this.delete(): the lookup (with its
\* repair write); the request that found the path is under way
DeleteLookup(c, progressId, userId) ==
  /\ inflight[c].phase = "idle"
  /\ \E r \in {getLearningPathById(paths, progressId, userId)} :
       /\ paths' = r.store
       /\ IF r.found = 0
          THEN /\ last' = [op |-> "delete", outcome |-> "NotFound",
                           via |-> r.via, writes |-> r.writes]
               /\ UNCHANGED inflight
          ELSE /\ inflight' = [inflight EXCEPT ![c] =
                                 [phase |-> "found", progressId |-> progressId,
                                  via |-> r.via, writes |-> r.writes]]
               /\ UNCHANGED last
  /\ UNCHANGED <<nextId, now, extraction>>

\* the rest of deleteLearningPath: BaseService.delete of the id, whatever is
\* stored under it by now
DeleteRemove(c) ==
  /\ inflight[c].phase = "found"
  /\ \E call \in {inflight[c]}, d \in {delete(paths, inflight[c].progressId)} :
       /\ paths' = d.store
       /\ last' = [op |-> "delete", outcome |-> d.outcome, via |-> call.via,
                   writes |-> call.writes + (IF d.outcome = "ok" THEN 1 ELSE 0)]
  /\ inflight' = [inflight EXCEPT ![c] = Idle]
  /\ UNCHANGED <<nextId, now, extraction>>

\* SpecDeleteRace: delete requests on up to MaxPaths one-step paths, each
\* interleaving with the other between its lookup and its removal
NextDeleteRace ==
  \/ \E userId \in {UserA, UserB} : Create(LightPathData(userId))
  \/ \E c \in CallIds, progressId \in PathIds, userId \in UserIds :
       DeleteLookup(c, progressId, userId)
  \/ \E c \in CallIds : DeleteRemove(c)

SpecDeleteRace == InitMulti /\ [][NextDeleteRace]_vars

\* the lines that the texts are made of: plain numbered lines, one of them
\* with a title of more than TitleLimit characters that ends in "project", a
\* numbered line with another mark and emphasis, a number without title, a
\* keyword line, two headings, prose and the empty line
NumberedVariables == <<"1", ".", " ", "L", "e", "a", "r", "n", " ", "v", "a", "r", "i", "a", "b", "l", "e", "s">>
NumberedLoops == <<"2", ".", " ", "L", "e", "a", "r", "n", " ", "l", "o", "o", "p", "s">>
NumberedProject == <<"3", ".", " ", "B", "u", "i", "l", "d", " ", "a", " ", "p", "r", "o", "j", "e", "c", "t">>
NumberedParen == <<"5", ")", " ", "*", "E", "x", "p", "e", "r", "t", " ", "p", "r", "a", "c", "t", "i", "c", "e", "*">>
NumberedBare == <<"6", ".">>
KeywordLine == <<"S", "t", "e", "p", " ", "1", ":", " ", "F", "o", "u", "n", "d", "a", "t", "i", "o", "n", " ", "s", "e", "t", "u", "p">>
HeadingLine == <<"#", "#", " ", "A", "d", "v", "a", "n", "c", "e", "d", " ", "t", "o", "p", "i", "c", "s">>
HeadingKeywordLine == <<"#", " ", "S", "t", "e", "p", " ", "2", ":", " ", "B", "e", "f", "o", "r", "e", " ", "y", "o", "u", " ", "s", "t", "a", "r", "t">>
ProseLine == <<"S", "o", "m", "e", " ", "p", "r", "o", "s", "e">>
EmptyLine == <<>>
NumberedLong == <<"4", ".", " ">> \o [i \in 1..(TitleLimit - 4) |-> "x"] \o Project

PlainNumbered == {NumberedVariables, NumberedLoops, NumberedProject, NumberedLong}
LineShapes ==
  PlainNumbered \cup {NumberedParen, NumberedBare, KeywordLine, HeadingLine,
                      HeadingKeywordLine, ProseLine, EmptyLine}

\* lines.join("\n")
RECURSIVE Join(_)
Join(lines) ==
  IF lines = <<>> THEN <<>>
  ELSE IF Len(lines) = 1 THEN lines[1]
  ELSE lines[1] \o <<NL>> \o Join(Tail(lines))

LinesInputs == UNION {[1..n -> LineShapes] : n \in 0..MaxLines}
ExtractInputs == {Text(Join(lines)) : lines \in LinesInputs} \cup {Null, Undefined}

\* SpecExtract: extractLearningSteps applied to one text
InitExtract ==
  /\ paths = <<>>
  /\ nextId = 1
  /\ now = 1
  /\ last = NoCall
  /\ inflight = NoneInFlight
  /\ \E input \in ExtractInputs :
       extraction = [input |-> input, steps |-> <<>>, done |-> FALSE]

Extract ==
  /\ ~extraction.done
  /\ extraction' = [extraction EXCEPT !.steps = extractLearningSteps(extraction.input),
                                      !.done = TRUE]
  /\ UNCHANGED <<paths, nextId, now, last, inflight>>

NextExtract == Extract

SpecExtract == InitExtract /\ [][NextExtract]_vars

\* The callers of the service: the create controller and the chat endpoint.

\* the texts sent as pathData.text or returned as the model's answer: no
\* text, the empty string, prose without steps, one keyword line, two
\* numbered lines
CallerTexts ==
  {Undefined, Text(<<>>), Text(ProseLine), Text(KeywordLine),
   Text(Join(<<NumberedVariables, NumberedLoops>>))}

\* a step id "step-<n>" in the spelling of StepIds
stepIdOf(id) ==
  IF id = StepPrefix \o Decimal(1) THEN "s1"
  ELSE IF id = StepPrefix \o Decimal(2) THEN "s2"
  ELSE NoId

\* the array returned by extractLearningSteps as a value of pathData.steps
ExtractedSteps(text) ==
  [kind |-> "array",
   items |-> CHOOSE items \in
               {[i \in 1..Len(steps) |-> [id |-> stepIdOf(steps[i].id), completed |-> FALSE]] :
                  steps \in {extractLearningSteps(text)}} : TRUE]

\* req.body of POST /api/learning: steps is missing (or another falsy value),
\* a truthy value that is not an array, or an array
CreateBodies ==
  [userId : {UserA, NoUser}, chatId : ChatIds, title : Titles, text : CallerTexts,
   steps : {s \in StepsInputs : Len(s.items) <= MaxClockSteps}]

\* a response: status is the HTTP status, error the message sent or logged
\* with it, steps the length of the step list the handler had in hand
Response(op, status, error, writes, steps) ==
  [op |-> op, outcome |-> status, via |-> error, writes |-> writes, steps |-> steps]

\* the create controller without its test of the step list
CreateRequest_NoStepsTest(body) ==
  /\ nextId <= MaxPaths
  /\ IF ~Truthy(body.userId) \/ body.chatId = "" \/ body.title = ""
     THEN /\ last' = Response("createRequest", "400", "MissingFields", 0,
                           Len(body.steps.items))
          /\ UNCHANGED <<paths, nextId>>
     ELSE \E extracting \in {body.text.kind = "string" /\ body.text.chars # <<>>
                             /\ body.steps.kind = "missing"} :
          \E steps \in {IF extracting THEN ExtractedSteps(body.text) ELSE body.steps} :
            IF extracting /\ Len(steps.items) = 0
            THEN /\ last' = Response("createRequest", "400", "NoStepsExtracted", 0,
                                  Len(steps.items))
                 /\ UNCHANGED <<paths, nextId>>
            ELSE \E r \in {createLearningPath(paths, nextId,
                                              [userId |-> body.userId, chatId |-> body.chatId,
                                               title |-> body.title, steps |-> steps], now)} :
                   /\ paths' = r.store
                   /\ nextId' = IF r.outcome = "ok" THEN nextId + 1 ELSE nextId
                   /\ last' = IF r.outcome = "ok"
                              THEN Response("createRequest", "201", "none", 1,
                                            Len(steps.items))
                              ELSE Response("createRequest", "500", "CreateFailed", 0,
                                            Len(steps.items))
  /\ UNCHANGED <<now, inflight, extraction>>

\* LearningController.createLearningPath: the required fields, the extraction
\* from pathData.text when no steps were sent, the test of the step list, the
\* service call; whatever the service throws becomes a 500
CreateRequest(body) ==
  /\ nextId <= MaxPaths
  /\ IF ~Truthy(body.userId) \/ body.chatId = "" \/ body.title = ""
     THEN /\ last' = Response("createRequest", "400", "MissingFields", 0,
                           Len(body.steps.items))
          /\ UNCHANGED <<paths, nextId>>
     ELSE \E extracting \in {body.text.kind = "string" /\ body.text.chars # <<>>
                             /\ body.steps.kind = "missing"} :
          \E steps \in {IF extracting THEN ExtractedSteps(body.text) ELSE body.steps} :
            IF extracting /\ Len(steps.items) = 0
            THEN /\ last' = Response("createRequest", "400", "NoStepsExtracted", 0,
                                  Len(steps.items))
                 /\ UNCHANGED <<paths, nextId>>
            ELSE IF steps.kind # "array" \/ Len(steps.items) = 0
            THEN /\ last' = Response("createRequest", "400", "StepsRequired", 0,
                                  Len(steps.items))
                 /\ UNCHANGED <<paths, nextId>>
            ELSE \E r \in {createLearningPath(paths, nextId,
                                              [userId |-> body.userId, chatId |-> body.chatId,
                                               title |-> body.title, steps |-> steps], now)} :
                   /\ paths' = r.store
                   /\ nextId' = IF r.outcome = "ok" THEN nextId + 1 ELSE nextId
                   /\ last' = IF r.outcome = "ok"
                              THEN Response("createRequest", "201", "none", 1,
                                            Len(steps.items))
                              ELSE Response("createRequest", "500", "CreateFailed", 0,
                                            Len(steps.items))
  /\ UNCHANGED <<now, inflight, extraction>>

\* POST /api/chat after the answer was generated and the chat saved: with
\* generateLearningPath the steps are extracted from the answer and, when
\* there are any, a path is created; an error of the service is logged and
\* the answer is returned all the same.  The request has a userId (it is
\* rejected before otherwise); the chat id and the title are not empty.
ChatRequest(userId, generateLearningPath, answer) ==
  /\ nextId <= MaxPaths
  /\ \E steps \in {ExtractedSteps(answer)} :
       IF generateLearningPath /\ Len(steps.items) > 0
       THEN \E r \in {createLearningPath(paths, nextId,
                                         [userId |-> userId, chatId |-> "c1",
                                          title |-> "T", steps |-> steps], now)} :
              /\ paths' = r.store
              /\ nextId' = IF r.outcome = "ok" THEN nextId + 1 ELSE nextId
              /\ last' = IF r.outcome = "ok"
                         THEN Response("chat", "200", "none", 1, Len(steps.items))
                         ELSE Response("chat", "200", "CreateFailed", 0, Len(steps.items))
       ELSE /\ last' = Response("chat", "200", "NoPath", 0, Len(steps.items))
            /\ UNCHANGED <<paths, nextId>>
  /\ UNCHANGED <<now, inflight, extraction>>

\* SpecCallers: paths are created by the create controller and by the chat
\* endpoint, and deleted
NextCallers ==
  \/ \E body \in CreateBodies : CreateRequest(body)
  \/ \E userId \in {UserB, SessionX}, generateLearningPath \in BOOLEAN,
        answer \in CallerTexts \ {Undefined, Text(<<>>)} :
       ChatRequest(userId, generateLearningPath, answer)
  \/ \E progressId \in PathIds, userId \in {UserA, UserB} : Delete(progressId, userId)

SpecCallers == InitMulti /\ [][NextCallers]_vars

----------------------------------------------------------------------------
(* Properties *)

\* the number of steps whose completed flag is true
CompletedCount(learningPath) ==
  Cardinality({i \in 1..Len(learningPath.steps) : learningPath.steps[i].completed})

\* the step ids of a path, in order
StepIdsOf(learningPath) ==
  [i \in 1..Len(learningPath.steps) |-> learningPath.steps[i].stepId]

DistinctStepIds(learningPath) ==
  \A i, j \in 1..Len(learningPath.steps) :
    i # j => learningPath.steps[i].stepId # learningPath.steps[j].stepId

\* the caller ids that the lookup's identity repair writes into a path of owner
Repairs(userId, owner) ==
  Truthy(userId) /\ ~startsWith(userId, SessionPrefix) /\ userId # owner

\* the step just taken is a request of the kind op (the clock stands still)
Called(op) == last'.op = op /\ now' = now

\* C1: in every reachable state every stored path has completedSteps equal to
\* the number of its steps whose completed flag is true.
C1_CompletedStepsIsCount ==
  \A id \in DOMAIN paths : paths[id].completedSteps = CompletedCount(paths[id])

\* after a toggle: a path of two steps, the first not completed and annotated,
\* the second completed
C1_Witness ==
  /\ last.op = "toggleStep" /\ last.outcome = "ok"
  /\ \E id \in DOMAIN paths :
       /\ Len(paths[id].steps) = 2
       /\ paths[id].completedSteps = 1
       /\ ~paths[id].steps[1].completed /\ paths[id].steps[1].notes # NoNotes
       /\ paths[id].steps[2].completed

\* C2 (as claimed): in every reachable state every stored path has
\* isCompleted = true if and only if completedSteps = totalSteps.
C2_IsCompletedIffAllDone ==
  \A id \in DOMAIN paths :
    paths[id].isCompleted <=> (paths[id].completedSteps = paths[id].totalSteps)

\* C3 (as claimed): in every reachable state, toggleStep and annotateStep on a
\* stepId that the path does not have fail with step-not-found and leave the
\* whole store as it was, for every caller id.  Stated for the paths that
\* have steps.
C3_StepNotFoundNoChange ==
  \A p \in DOMAIN paths, u \in UserIds, s \in StepIds :
    (Len(paths[p].steps) >= 1 /\ findIndex(paths[p].steps, s) = 0) =>
      /\ \A v \in BOOLEAN :
           \A r \in {updateStepCompletion(paths, p, s, v, u, now)} :
             r.outcome = "StepNotFound" /\ r.store = paths
      /\ \A n \in Notes :
           \A r \in {addStepNotes(paths, p, s, n, u, now)} :
             r.outcome = "StepNotFound" /\ r.store = paths

\* C3 (amended): in every reachable state, toggleStep and annotateStep on a
\* stepId that the path does not have fail with step-not-found; steps, counters
\* and timestamps are as before, and userId is as before unless the caller id
\* is non-empty, does not start with "session:" and differs from it: then
\* userId is the caller id.
C3_StepNotFoundOnlyRepair ==
  \A p \in DOMAIN paths, u \in UserIds, s \in StepIds :
    findIndex(paths[p].steps, s) = 0 =>
      \A after \in {IF Repairs(u, paths[p].userId)
                    THEN [paths EXCEPT ![p].userId = u]
                    ELSE paths} :
        /\ \A v \in BOOLEAN :
             \A r \in {updateStepCompletion(paths, p, s, v, u, now)} :
               r.outcome = "StepNotFound" /\ r.store = after
        /\ \A n \in Notes :
             \A r \in {addStepNotes(paths, p, s, n, u, now)} :
               r.outcome = "StepNotFound" /\ r.store = after

\* a step-not-found failure whose lookup rewrote the owner, at an instant later
\* than the path's last update
C3_Witness ==
  /\ last.op \in {"toggleStep", "annotateStep"}
  /\ last.outcome = "StepNotFound"
  /\ last.via = "fallback" /\ last.writes = 1
  /\ \E id \in DOMAIN paths :
       Len(paths[id].steps) >= 1 /\ paths[id].updatedAt < now

\* C4: locate by a non-empty caller id that is not a session id and is not the
\* owner succeeds by the unconditional fallback and makes the caller the
\* persisted userId; the caller's next locate matches strictly and writes nothing.
C4_FallbackRepairsOwner ==
  [][Called("locate") =>
     \A p \in DOMAIN paths, u \in UserIds :
       (Repairs(u, paths[p].userId) /\ Locate(p, u)) =>
         /\ last'.outcome = "ok" /\ last'.via = "fallback"
         /\ p \in DOMAIN paths' /\ paths'[p].userId = u
         /\ LET again == getLearningPathById(paths', p, u)
            IN again.found = p /\ again.via = "strict"
               /\ again.writes = 0 /\ again.store = paths']_vars

\* a locate that resolved by the fallback and wrote the caller id
C4_Witness ==
  /\ last.op = "locate" /\ last.outcome = "ok"
  /\ last.via = "fallback" /\ last.writes = 1
  /\ \E id \in DOMAIN paths : ~startsWith(paths[id].userId, SessionPrefix)

\* C5: with a caller id that starts with "session:" and is not the owner,
\* locate succeeds and the persisted userId stays the owner; so it is for the
\* lookup inside toggleStep, annotateStep and delete.
C5_SessionKeepsOwner ==
  [][\A p \in DOMAIN paths, u \in UserIds :
       (startsWith(u, SessionPrefix) /\ u # paths[p].userId) =>
         /\ (Called("locate") /\ Locate(p, u)) =>
              last'.outcome = "ok" /\ last'.writes = 0 /\ paths' = paths
         /\ Called("toggleStep") =>
              \A s \in StepIds, v \in BOOLEAN :
                ToggleStep(p, u, s, v) =>
                  /\ last'.outcome # "NotFound" /\ last'.via = "session"
                  /\ paths'[p].userId = paths[p].userId
         /\ Called("annotateStep") =>
              \A s \in StepIds, n \in Notes :
                AnnotateStep(p, u, s, n) =>
                  /\ last'.outcome # "NotFound" /\ last'.via = "session"
                  /\ paths'[p].userId = paths[p].userId
         /\ (Called("delete") /\ Delete(p, u)) =>
              /\ last'.outcome = "ok" /\ last'.via = "session"
              /\ last'.writes = 1 /\ paths' = deleteOne(paths, p)]_vars

\* a toggle by a session caller of a path that another user owns
C5_Witness ==
  /\ last.op = "toggleStep" /\ last.outcome = "ok" /\ last.via = "session"
  /\ \E id \in DOMAIN paths : ~startsWith(paths[id].userId, SessionPrefix)

\* C6: in every reachable state, when toggleStep(path, step, v) succeeds, the
\* same toggleStep again (at any later instant, by any caller) succeeds and
\* leaves completedSteps, isCompleted and the step's completed flag as the
\* first call left them.
C6_ToggleIdempotent ==
  \A p \in DOMAIN paths, u \in UserIds, s \in StepIds, v \in BOOLEAN :
    \A first \in {updateStepCompletion(paths, p, s, v, u, now)} :
      first.outcome = "ok" =>
        \A u2 \in UserIds, t \in now..MaxTime :
          \A second \in {updateStepCompletion(first.store, p, s, v, u2, t)},
             i \in {findIndex(paths[p].steps, s)} :
            /\ second.outcome = "ok"
            /\ second.store[p].completedSteps = first.store[p].completedSteps
            /\ second.store[p].isCompleted = first.store[p].isCompleted
            /\ second.store[p].steps[i].completed = first.store[p].steps[i].completed
            /\ first.store[p].steps[i].completed = v

\* a toggle that completed one step of a path that has a second step completed
C6_Witness ==
  /\ last.op = "toggleStep" /\ last.outcome = "ok"
  /\ \E id \in DOMAIN paths :
       paths[id].completedSteps = 2 /\ paths[id].isCompleted

\* the pathData that the claim has create reject
Rejected(pathData) ==
  \/ ~Truthy(pathData.userId)
  \/ pathData.chatId = ""
  \/ pathData.title = ""
  \/ pathData.steps.kind # "array"
  \/ Len(pathData.steps.items) = 0

\* C7 (as claimed): create fails with a validation error and persists nothing
\* whenever userId, chatId or title is missing or steps is missing, not an
\* array, or empty.
C7_CreateRejects ==
  [][Called("create") =>
     \A pathData \in PathDatas :
       (Rejected(pathData) /\ Create(pathData)) =>
         last'.outcome = "ValidationError" /\ paths' = paths]_vars

\* C8: a path that create returns has totalSteps = the length of the supplied
\* list, completedSteps = 0, isCompleted = false, the supplied step ids in the
\* supplied order, and every step not completed and without completedAt.
C8_CreatedPathIsFresh ==
  [][(Called("create") /\ last'.outcome = "ok") =>
     \A pathData \in PathDatas :
       Create(pathData) =>
         LET items == pathData.steps.items
             created == paths'[nextId]
         IN /\ nextId \in DOMAIN paths' /\ nextId \notin DOMAIN paths
            /\ created.totalSteps = Len(items)
            /\ created.completedSteps = 0
            /\ created.isCompleted = FALSE
            /\ Len(created.steps) = Len(items)
            /\ \A i \in 1..Len(items) :
                 /\ created.steps[i].stepId = items[i].id
                 /\ created.steps[i].completed = FALSE
                 /\ created.steps[i].completedAt = NoDate]_vars

\* a path of MaxSteps steps just created
C8_Witness ==
  /\ last.op = "create" /\ last.outcome = "ok"
  /\ \E id \in DOMAIN paths :
       Len(paths[id].steps) = MaxSteps /\ paths[id].totalSteps = MaxSteps

\* C9: no request changes totalSteps, the number of steps, their order or
\* their stepIds of a path that stays stored.
C9_StepsFixed ==
  [][\A p \in DOMAIN paths \cap DOMAIN paths' :
       /\ paths'[p].totalSteps = paths[p].totalSteps
       /\ StepIdsOf(paths'[p]) = StepIdsOf(paths[p])]_vars

\* a path with a completed and annotated step, after locate repaired its owner
C9_Witness ==
  /\ last.op = "locate" /\ last.writes = 1
  /\ \E id \in DOMAIN paths :
       \E i \in 1..Len(paths[id].steps) :
         paths[id].steps[i].completed /\ paths[id].steps[i].notes # NoNotes

\* C10: in every reachable state of a path of n steps with distinct ids, of
\* which k are completed, n >= 1 when a toggle succeeds; completing one more
\* step gives completedSteps = k + 1 and isCompleted exactly when k + 1 = n;
\* un-completing a completed step gives isCompleted = false.  A path has
\* k = 0 when create returns it.
C10_CompleteOneByOne ==
  /\ (last.op = "create" /\ last.outcome = "ok") =>
       \A p \in DOMAIN paths : CompletedCount(paths[p]) = 0
  /\ \A p \in DOMAIN paths, u \in UserIds, s \in StepIds, v \in BOOLEAN :
       DistinctStepIds(paths[p]) =>
         \A r \in {updateStepCompletion(paths, p, s, v, u, now)},
            i \in {findIndex(paths[p].steps, s)},
            k \in {CompletedCount(paths[p])},
            n \in {Len(paths[p].steps)} :
           r.outcome = "ok" =>
             /\ n >= 1
             /\ (v /\ ~paths[p].steps[i].completed) =>
                  /\ CompletedCount(r.store[p]) = k + 1
                  /\ r.store[p].completedSteps = k + 1
                  /\ r.store[p].isCompleted = (k + 1 = n)
             /\ (~v /\ paths[p].steps[i].completed) =>
                  /\ r.store[p].completedSteps = k - 1
                  /\ r.store[p].isCompleted = FALSE

\* the last of two distinct steps completed: the path is completed
C10_Witness ==
  /\ last.op = "toggleStep" /\ last.outcome = "ok"
  /\ \E id \in DOMAIN paths :
       /\ DistinctStepIds(paths[id])
       /\ Len(paths[id].steps) = 2
       /\ \A i \in 1..2 : paths[id].steps[i].completed
       /\ paths[id].isCompleted

\* C11: in every reachable state, locate, toggleStep, annotateStep and delete
\* fail with path-not-found exactly when no stored path has the given id,
\* whatever the caller id; a call that fails this way leaves the store as it
\* was, and delete of a stored path succeeds.
C11_NotFoundIffNotStored ==
  \A p \in PathIds, u \in UserIds :
    /\ \A r \in {getLearningPathById(paths, p, u)} :
         /\ (r.found = 0) <=> (p \notin DOMAIN paths)
         /\ r.found = 0 => r.store = paths
    /\ \A s \in StepIds, v \in BOOLEAN :
         \A r \in {updateStepCompletion(paths, p, s, v, u, now)} :
           /\ (r.outcome = "NotFound") <=> (p \notin DOMAIN paths)
           /\ r.outcome = "NotFound" => r.store = paths
    /\ \A s \in StepIds, n \in Notes :
         \A r \in {addStepNotes(paths, p, s, n, u, now)} :
           /\ (r.outcome = "NotFound") <=> (p \notin DOMAIN paths)
           /\ r.outcome = "NotFound" => r.store = paths
    /\ \A r \in {deleteLearningPath(paths, p, u)} :
         /\ (r.outcome = "NotFound") <=> (p \notin DOMAIN paths)
         /\ r.outcome = "NotFound" => r.store = paths
         /\ p \in DOMAIN paths => r.outcome = "ok"

\* a toggle failed with path-not-found on a deleted id while another path,
\* owned by someone, is stored
C11_Witness ==
  /\ last.op = "toggleStep" /\ last.outcome = "NotFound"
  /\ paths # <<>>
  /\ \E p \in PathIds : p < nextId /\ p \notin DOMAIN paths

\* C12: a successful delete returns the deleted id and removes exactly the
\* path with that id, every other stored path staying as it was; an id once
\* deleted is never stored again, and locate, toggleStep, annotateStep and
\* delete on it fail with path-not-found.
C12_DeleteRemovesOnlyThat ==
  /\ [](\A p \in PathIds, u \in UserIds :
          (p < nextId /\ p \notin DOMAIN paths) =>
            /\ getLearningPathById(paths, p, u).found = 0
            /\ deleteLearningPath(paths, p, u).outcome = "NotFound"
            /\ \A s \in StepIds :
                 /\ \A v \in BOOLEAN :
                      updateStepCompletion(paths, p, s, v, u, now).outcome = "NotFound"
                 /\ \A n \in Notes :
                      addStepNotes(paths, p, s, n, u, now).outcome = "NotFound")
  /\ [][/\ (Called("delete") /\ last'.outcome = "ok") =>
             \A p \in DOMAIN paths, u \in UserIds :
               Delete(p, u) =>
                 /\ deleteLearningPath(paths, p, u).deletedId = p
                 /\ paths' = [i \in DOMAIN paths \ {p} |-> paths[i]]
        /\ \A p \in PathIds :
             (p < nextId /\ p \notin DOMAIN paths) => p \notin DOMAIN paths']_vars

\* a delete succeeded and a path with a completed, annotated step is still stored
C12_Witness ==
  /\ last.op = "delete" /\ last.outcome = "ok"
  /\ \E id \in DOMAIN paths :
       paths[id].steps[1].completed /\ paths[id].steps[1].notes # NoNotes

\* C13: in every reachable state every step of every stored path has a
\* completedAt exactly when its completed flag is true.
C13_CompletedAtIffCompleted ==
  \A id \in DOMAIN paths :
    \A i \in 1..Len(paths[id].steps) :
      (paths[id].steps[i].completedAt # NoDate) <=> paths[id].steps[i].completed

\* after an un-completing toggle: one step with a completedAt, the other
\* without
C13_Witness ==
  /\ last.op = "toggleStep" /\ last.outcome = "ok"
  /\ \E id \in DOMAIN paths :
       /\ Len(paths[id].steps) = 2
       /\ paths[id].steps[1].completedAt # NoDate
       /\ paths[id].steps[2].completedAt = NoDate
       /\ paths[id].steps[2].notes # NoNotes

\* C14: in every reachable state a successful annotateStep sets the notes of
\* the step it finds to the supplied text, whatever notes it had, and leaves
\* completed and completedAt of every step, the notes of the other steps,
\* completedSteps, totalSteps and isCompleted as they were.
C14_AnnotateSetsOnlyNotes ==
  \A p \in DOMAIN paths, u \in UserIds, s \in StepIds, n \in Notes :
    \A r \in {addStepNotes(paths, p, s, n, u, now)} :
      r.outcome = "ok" =>
        \A i \in {findIndex(paths[p].steps, s)} :
          /\ Len(r.store[p].steps) = Len(paths[p].steps)
          /\ r.store[p].steps[i].notes = n
          /\ \A j \in 1..Len(paths[p].steps) :
               /\ r.store[p].steps[j].completed = paths[p].steps[j].completed
               /\ r.store[p].steps[j].completedAt = paths[p].steps[j].completedAt
               /\ j # i => r.store[p].steps[j].notes = paths[p].steps[j].notes
          /\ r.store[p].completedSteps = paths[p].completedSteps
          /\ r.store[p].totalSteps = paths[p].totalSteps
          /\ r.store[p].isCompleted = paths[p].isCompleted

\* after an annotateStep: two steps with different notes, one of them completed
C14_Witness ==
  /\ last.op = "annotateStep" /\ last.outcome = "ok"
  /\ \E id \in DOMAIN paths :
       /\ Len(paths[id].steps) = 2
       /\ paths[id].steps[1].notes = "n2"
       /\ paths[id].steps[2].notes = "n1"
       /\ paths[id].steps[2].completed

\* C15 (as claimed): in every reachable state every successful toggleStep,
\* every successful annotateStep and every locate that writes the caller id
\* leaves the path with updatedAt and lastAccessedAt at the current instant.
\* Stated for the paths that have steps.
C15_WritesRefreshTimestamps ==
  \A p \in {id \in DOMAIN paths : Len(paths[id].steps) >= 1}, u \in UserIds :
    /\ \A r \in {getLearningPathById(paths, p, u)} :
         r.writes >= 1 =>
           r.store[p].updatedAt = now /\ r.store[p].lastAccessedAt = now
    /\ \A s \in StepIds, v \in BOOLEAN :
         \A r \in {updateStepCompletion(paths, p, s, v, u, now)} :
           r.outcome = "ok" =>
             r.store[p].updatedAt = now /\ r.store[p].lastAccessedAt = now
    /\ \A s \in StepIds, n \in Notes :
         \A r \in {addStepNotes(paths, p, s, n, u, now)} :
           r.outcome = "ok" =>
             r.store[p].updatedAt = now /\ r.store[p].lastAccessedAt = now

\* C20 (as claimed): in every reachable state the stepIds of the steps of a
\* stored path are pairwise distinct.
C20_StepIdsDistinct ==
  \A id \in DOMAIN paths : DistinctStepIds(paths[id])

\* C17 (as claimed): in every reachable state a toggleStep, annotateStep or
\* delete that ends in step-not-found or in a rejected call to the model
\* leaves the store as it was.  Stated for the paths that have steps.
C17_FailureChangesNothing ==
  \A p \in {id \in DOMAIN paths : Len(paths[id].steps) >= 1},
     u \in UserIds, fault \in Faults :
    /\ \A s \in StepIds, v \in BOOLEAN :
         \A r \in {FaultyUpdateStepCompletion(paths, p, s, v, u, now, fault)} :
           r.outcome \in {"StepNotFound", "DbError"} => r.store = paths
    /\ \A s \in StepIds, n \in Notes :
         \A r \in {FaultyAddStepNotes(paths, p, s, n, u, now, fault)} :
           r.outcome \in {"StepNotFound", "DbError"} => r.store = paths
    /\ \A r \in {FaultyDeleteLearningPath(paths, p, u, fault)} :
         r.outcome = "DbError" => r.store = paths

\* C17 (amended): in every reachable state a toggleStep, annotateStep or delete
\* that ends in step-not-found or in a rejected call to the model leaves the
\* store as it was, but for the userId of the path, which is the caller id
\* when the lookup's repair write went through before the failure; a call that
\* succeeds leaves the store that the call leaves when no call can reject,
\* with the step as requested or the path gone.
C17_FailureKeepsOnlyRepair ==
  \A p \in DOMAIN paths, u \in UserIds, fault \in Faults :
    \A after \in {[paths EXCEPT ![p].userId = u]} :
      /\ \A s \in StepIds, v \in BOOLEAN :
           \A r \in {FaultyUpdateStepCompletion(paths, p, s, v, u, now, fault)} :
             /\ r.outcome \in {"StepNotFound", "DbError"} =>
                  /\ r.store = IF r.writes = 1 THEN after ELSE paths
                  /\ r.writes = 1 => Repairs(u, paths[p].userId)
             /\ r.outcome = "ok" =>
                  /\ r.store = updateStepCompletion(paths, p, s, v, u, now).store
                  /\ r.store[p].steps[findIndex(paths[p].steps, s)].completed = v
      /\ \A s \in StepIds, n \in Notes :
           \A r \in {FaultyAddStepNotes(paths, p, s, n, u, now, fault)} :
             /\ r.outcome \in {"StepNotFound", "DbError"} =>
                  /\ r.store = IF r.writes = 1 THEN after ELSE paths
                  /\ r.writes = 1 => Repairs(u, paths[p].userId)
             /\ r.outcome = "ok" =>
                  /\ r.store = addStepNotes(paths, p, s, n, u, now).store
                  /\ r.store[p].steps[findIndex(paths[p].steps, s)].notes = n
      /\ \A r \in {FaultyDeleteLearningPath(paths, p, u, fault)} :
           /\ r.outcome = "DbError" =>
                /\ r.store = IF r.writes = 1 THEN after ELSE paths
                /\ r.writes = 1 => Repairs(u, paths[p].userId)
           /\ r.outcome = "ok" => r.store = deleteOne(paths, p)
           /\ r.outcome \in {"DbError", "ok"}

\* the final save of a toggle was rejected after the lookup had written the
\* caller id into the path
C17_Witness ==
  /\ last.op = "toggleStep" /\ last.outcome = "DbError"
  /\ last.via = "fallback" /\ last.writes = 1
  /\ \E id \in DOMAIN paths : Len(paths[id].steps) >= 1

\* C18 (as claimed): in every reachable state, when the repair write of the
\* fallback is rejected, locate still returns the path, the stored userId is
\* the old owner, and the caller's next locate resolves by the fallback again.
\* Stated for the paths that have steps.
C18_RepairFailureTolerated ==
  \A p \in {id \in DOMAIN paths : Len(paths[id].steps) >= 1}, u \in UserIds :
    Repairs(u, paths[p].userId) =>
      \A r \in {FaultyGetLearningPathById(paths, p, u, 3)} :
        /\ r.failed
        /\ r.outcome = "ok" /\ r.found = p
        /\ r.store[p].userId = paths[p].userId
        /\ FaultyGetLearningPathById(r.store, p, u, 0).via = "fallback"

\* C19 (as claimed): in every reachable state, for create, locate, the
\* listing, toggleStep, annotateStep and delete, when a call to the model
\* rejects, that call is the last one the operation makes and the operation
\* fails with the error the model raised.
C19_FailurePropagatesUnchanged ==
  \A fault \in Faults \ {0}, u \in UserIds :
    /\ \A pathData \in {pd \in PathDatas : Len(pd.steps.items) <= MaxClockSteps} :
         \A r \in {FaultyCreateLearningPath(paths, nextId, pathData, now, fault)} :
           r.failed => r.outcome = "DbError" /\ r.calls = fault
    /\ \A limit \in Limits, page \in Pages :
         \A r \in {getUserLearningPaths(paths, u, limit, page, fault)} :
           r.failed => r.outcome = "DbError" /\ r.calls = fault
    /\ \A p \in PathIds :
         /\ \A r \in {FaultyGetLearningPathById(paths, p, u, fault)} :
              r.failed => r.outcome = "DbError" /\ r.calls = fault
         /\ \A r \in {FaultyDeleteLearningPath(paths, p, u, fault)} :
              r.failed => r.outcome = "DbError" /\ r.calls = fault
         /\ \A s \in StepIds :
              /\ \A v \in BOOLEAN :
                   \A r \in {FaultyUpdateStepCompletion(paths, p, s, v, u, now, fault)} :
                     r.failed => r.outcome = "DbError" /\ r.calls = fault
              /\ \A n \in Notes :
                   \A r \in {FaultyAddStepNotes(paths, p, s, n, u, now, fault)} :
                     r.failed => r.outcome = "DbError" /\ r.calls = fault

\* C16: when a toggleStep request saves a change of its step after another
\* request has, since this one read the path, changed the counter and not this
\* step, the counter stored is the one computed from the stale read: with
\* counters that agreed with the flags before, completedSteps no longer is the
\* number of completed steps, while both steps are stored as toggled.
C16_LostUpdate ==
  [][\A c \in CallIds :
       (inflight[c].phase = "loaded" /\ inflight'[c].phase = "idle") =>
         \A call \in {inflight[c]} :
           \A p \in {call.progressId} \cap DOMAIN paths :
             ( /\ call.loaded.steps[call.stepIndex].completed # call.completed
               /\ paths[p].completedSteps # call.loaded.completedSteps
               /\ paths[p].steps[call.stepIndex].completed
                    = call.loaded.steps[call.stepIndex].completed
               /\ call.loaded.completedSteps = CompletedCount(call.loaded)
               /\ paths[p].completedSteps = CompletedCount(paths[p]) ) =>
               /\ last'.outcome = "ok"
               /\ paths'[p].completedSteps
                    = call.loaded.completedSteps + (IF call.completed THEN 1 ELSE -1)
               /\ CompletedCount(paths'[p])
                    = CompletedCount(paths[p]) + (IF call.completed THEN 1 ELSE -1)
               /\ paths'[p].completedSteps # CompletedCount(paths'[p])
               /\ \A j \in 1..Len(paths[p].steps) :
                    paths'[p].steps[j].completed =
                      IF j = call.stepIndex THEN call.completed
                      ELSE paths[p].steps[j].completed]_vars

\* both requests have returned with success: both steps are completed and the
\* counter is 1
C16_Witness ==
  /\ last.op = "toggleStep" /\ last.outcome = "ok"
  /\ \A c \in CallIds : inflight[c].phase = "idle"
  /\ \E id \in DOMAIN paths :
       /\ Len(paths[id].steps) = 2
       /\ paths[id].steps[1].completed /\ paths[id].steps[2].completed
       /\ paths[id].completedSteps = 1

\* the text of ([^\n]+) in a match of a family, and its cleaning
Remainder(pattern, match) ==
  IF pattern = HeadingPattern THEN match.g1 ELSE match.g2

Cleaned(remainder) == stripAsterisks(trim(remainder))

\* the first of the three families that matches the text
FirstFamily(text) ==
  IF AllMatches(KeywordPattern, text, 1) # <<>> THEN KeywordPattern
  ELSE IF AllMatches(NumberedPattern, text, 1) # <<>> THEN NumberedPattern
  ELSE IF AllMatches(HeadingPattern, text, 1) # <<>> THEN HeadingPattern
  ELSE "none"

\* C22: the steps returned are exactly the matches, in the order of the text,
\* of the first of the families keyword, numbered list, heading that matches
\* the text at all; matches of later families add nothing.
C22_FirstFamilyOnly ==
  (extraction.done /\ extraction.input.kind = "string") =>
    \A f \in {FirstFamily(extraction.input.chars)} \ {"none"} :
      \A ms \in {AllMatches(f, extraction.input.chars, 1)} :
        /\ Len(extraction.steps) = Len(ms)
        /\ \A i \in 1..Len(ms) :
             extraction.steps[i].title = truncate(Cleaned(Remainder(f, ms[i])))
        /\ \A i \in 1..(Len(ms) - 1) : ms[i].end < ms[i + 1].end

\* a text that all three families match has been reduced to its keyword line
C22_Witness ==
  /\ extraction.done
  /\ extraction.input = Text(Join(<<NumberedLoops, KeywordLine, HeadingLine>>))
  /\ Len(extraction.steps) = 1
  /\ AllMatches(NumberedPattern, extraction.input.chars, 1) # <<>>
  /\ AllMatches(HeadingPattern, extraction.input.chars, 1) # <<>>

\* C23: the steps returned are numbered from 1 in the order of the text,
\* without gaps, and no two of them have the same id.
C23_NumberedFromOne ==
  extraction.done =>
    /\ \A i \in 1..Len(extraction.steps) :
         extraction.steps[i].id \in {StepPrefix \o Decimal(i), ItemPrefix \o Decimal(i)}
    /\ \A i, j \in 1..Len(extraction.steps) :
         extraction.steps[i].id = extraction.steps[j].id => i = j

\* three steps have been returned for a text of three plain numbered lines
C23_Witness ==
  /\ extraction.done
  /\ extraction.input = Text(Join(<<NumberedVariables, NumberedLoops, NumberedProject>>))
  /\ Len(extraction.steps) = 3
  /\ extraction.steps[3].id = <<"s", "t", "e", "p", "-", "3">>

\* C24: the empty string, null and undefined give the empty sequence, and
\* every input gives a sequence of steps, each with id, title and category.
C24_EmptyForNoText ==
  extraction.done =>
    /\ extraction.input \in {Null, Undefined, Text(<<>>)} => extraction.steps = <<>>
    /\ \A i \in 1..Len(extraction.steps) :
         /\ DOMAIN extraction.steps[i] = {"id", "title", "category"}
         /\ extraction.steps[i].category \in {"prerequisite", "core", "practice", "advanced"}

\* extractLearningSteps has returned for null
C24_Witness ==
  /\ extraction.done
  /\ extraction.input = Null
  /\ extraction.steps = <<>>

\* C25: a text without keyword line and without heading line that has fewer
\* than three plain numbered lines gives the empty sequence.
C25_FewNumberedLinesGiveNothing ==
  (extraction.done /\ extraction.input.kind = "string") =>
    ( ( /\ AllMatches(KeywordPattern, extraction.input.chars, 1) = <<>>
        /\ AllMatches(HeadingPattern, extraction.input.chars, 1) = <<>>
        /\ Len(AllMatches(SimplePattern, extraction.input.chars, 1)) < MinSimpleSteps )
      => extraction.steps = <<>> )

\* the category that the rules give to a title: the first rule one of whose
\* cues the title contains, whatever the case of its letters
CategoryByRules(title) ==
  LET has(cues) == \E cue \in cues : includes(toLowerCase(title), cue)
  IN IF has({Prerequisite, Before, Foundation}) THEN "prerequisite"
     ELSE IF has({Practice, Project, Exercise}) THEN "practice"
     ELSE IF has({Advanced, Expert, Complex}) THEN "advanced"
     ELSE "core"

\* C26: every step returned has the category that the rules give to its title.
C26_CategoryFromTitle ==
  extraction.done =>
    \A i \in 1..Len(extraction.steps) :
      extraction.steps[i].category = CategoryByRules(extraction.steps[i].title)

\* text.split("\n")
RECURSIVE SplitLines(_)
SplitLines(text) ==
  IF LineEnd(text, 1) > Len(text) THEN <<text>>
  ELSE <<SubSeq(text, 1, LineEnd(text, 1) - 1)>>
         \o SplitLines(SubSeq(text, LineEnd(text, 1) + 1, Len(text)))

\* the title of a line "<digit>. <title>"
TitleOfNumbered(line) == SubSeq(line, 4, Len(line))

\* C27: a text of k >= 1 lines "<integer>. <title>" gives k steps in the order
\* of the lines, the i-th with id step-<i>, the title of line i and the
\* category that the rules give to it; "1. Learn variables", "2. Learn loops",
\* "3. Build a project" give core, core, practice.
C27_NumberedLinesBecomeSteps ==
  (extraction.done /\ extraction.input.kind = "string") =>
    \A lines \in {SplitLines(extraction.input.chars)} :
      (\A i \in 1..Len(lines) : lines[i] \in PlainNumbered) =>
        /\ Len(extraction.steps) = Len(lines)
        /\ \A i \in 1..Len(lines) :
             /\ extraction.steps[i].id = StepPrefix \o Decimal(i)
             /\ extraction.steps[i].title = TitleOfNumbered(lines[i])
             /\ extraction.steps[i].category = CategoryByRules(extraction.steps[i].title)
        /\ lines = <<NumberedVariables, NumberedLoops, NumberedProject>> =>
             [i \in 1..3 |-> extraction.steps[i].category] = <<"core", "core", "practice">>

\* C28: every title returned is the cleaned remainder of its match when that
\* has at most 60 characters, and otherwise its first 60 characters followed
\* by "..."; no title has more than 60 characters of the remainder.
C28_TitleTruncated ==
  (extraction.done /\ extraction.input.kind = "string") =>
    \A f \in {FirstFamily(extraction.input.chars)} \ {"none"} :
      \A ms \in {AllMatches(f, extraction.input.chars, 1)} :
        /\ Len(extraction.steps) = Len(ms)
        /\ \A i \in 1..Len(ms) :
             \A c \in {Cleaned(Remainder(f, ms[i]))} :
               /\ Len(c) <= TitleLimit => extraction.steps[i].title = c
               /\ Len(c) > TitleLimit =>
                    /\ Len(extraction.steps[i].title) = TitleLimit + 3
                    /\ SubSeq(extraction.steps[i].title, 1, TitleLimit) = SubSeq(c, 1, TitleLimit)
                    /\ SubSeq(extraction.steps[i].title, TitleLimit + 1, TitleLimit + 3)
                         = <<".", ".", ".">>

\* a title of 63 characters has been cut and a title of 15 has been kept
C28_Witness ==
  /\ extraction.done
  /\ extraction.input = Text(Join(<<NumberedLong, NumberedVariables>>))
  /\ Len(extraction.steps) = 2
  /\ Len(extraction.steps[1].title) = TitleLimit + 3
  /\ extraction.steps[2].title = TitleOfNumbered(NumberedVariables)

\* C21: a listing for a user holds only paths of that user, updatedAt
\* descending: the i-th path of page p is preceded by at most (p-1)*limit+i-1
\* paths of the user updated later and is among the first (p-1)*limit+i by
\* updatedAt; a page holds limit paths or what is left after the pages before
\* it, total is the number of the user's paths and pages is ceil(total/limit).
C21_ListPagesOfUser ==
  \A userId \in {UserA, UserB}, limit \in Limits, page \in Pages :
    \A r \in {getUserLearningPaths(paths, userId, limit, page, 0)} :
      \A mine \in {{id \in DOMAIN paths : paths[id].userId = userId}} :
        /\ r.outcome = "ok"
        /\ r.total = Cardinality(mine)
        /\ r.pages * limit >= r.total /\ (r.pages - 1) * limit < r.total
        /\ Len(r.items) = Max(0, Min(limit, r.total - (page - 1) * limit))
        /\ \A i \in 1..Len(r.items) :
             /\ r.items[i] \in mine
             /\ \A j \in 1..Len(r.items) : r.items[i] = r.items[j] => i = j
             /\ Cardinality({id \in mine : paths[id].updatedAt > paths[r.items[i]].updatedAt})
                  <= (page - 1) * limit + i - 1
             /\ Cardinality({id \in mine : paths[id].updatedAt >= paths[r.items[i]].updatedAt})
                  >= (page - 1) * limit + i
        /\ \A i \in 1..(Len(r.items) - 1) :
             paths[r.items[i]].updatedAt >= paths[r.items[i + 1]].updatedAt

\* a user with two paths, the first updated before the second, has listed
\* them: page 2 of pages of one path holds the first path
C21_Witness ==
  /\ last.op = "list" /\ last.outcome = "ok"
  /\ \E i, j \in DOMAIN paths :
       /\ i < j
       /\ paths[i].userId = UserA /\ paths[j].userId = UserA
       /\ paths[i].updatedAt < paths[j].updatedAt
       /\ getUserLearningPaths(paths, UserA, 1, 2, 0).items = <<i>>
       /\ getUserLearningPaths(paths, UserA, 1, 1, 0).items = <<j>>

\* C29: a toggleStep that succeeds with a value other than the one the step
\* has raises completedSteps by one (to completed) or lowers it by one (to not
\* completed, from a counter above 0), gives the step that value, and leaves
\* completed, completedAt and notes of all other steps as they were.
C29_ToggleChangesOneStep ==
  \A p \in DOMAIN paths, u \in UserIds, s \in StepIds, v \in BOOLEAN :
    \A r \in {updateStepCompletion(paths, p, s, v, u, now)},
       i \in {findIndex(paths[p].steps, s)} :
      (r.outcome = "ok" /\ paths[p].steps[i].completed # v) =>
        /\ v => r.store[p].completedSteps = paths[p].completedSteps + 1
        /\ (~v /\ paths[p].completedSteps > 0) =>
             r.store[p].completedSteps = paths[p].completedSteps - 1
        /\ r.store[p].steps[i].completed = v
        /\ Len(r.store[p].steps) = Len(paths[p].steps)
        /\ \A j \in (1..Len(paths[p].steps)) \ {i} :
             /\ r.store[p].steps[j].completed = paths[p].steps[j].completed
             /\ r.store[p].steps[j].completedAt = paths[p].steps[j].completedAt
             /\ r.store[p].steps[j].notes = paths[p].steps[j].notes

\* a toggle has completed the first step of a path whose second step is not
\* completed and carries notes
C29_Witness ==
  /\ last.op = "toggleStep" /\ last.outcome = "ok"
  /\ \E id \in DOMAIN paths :
       /\ Len(paths[id].steps) = 2
       /\ paths[id].steps[1].completed
       /\ ~paths[id].steps[2].completed /\ paths[id].steps[2].notes = "n2"
       /\ paths[id].completedSteps = 1

\* C30: no toggleStep makes completedSteps negative, whatever the stored path,
\* one whose counter disagrees with its flags included: un-completing a step
\* of a path whose counter is 0 leaves the counter at 0.
C30_CounterNeverNegative ==
  \A p \in DOMAIN paths :
    /\ paths[p].completedSteps >= 0
    /\ \A u \in {UserA, SessionX}, s \in StepIds, v \in BOOLEAN :
         \A r \in {updateStepCompletion(paths, p, s, v, u, now)} :
           /\ r.outcome = "ok" => r.store[p].completedSteps >= 0
           /\ ( /\ r.outcome = "ok" /\ ~v
                /\ paths[p].completedSteps = 0
                /\ paths[p].steps[findIndex(paths[p].steps, s)].completed ) =>
                r.store[p].completedSteps = 0

\* a toggle has un-completed a step of a path whose counter was 0, as the
\* other request, which read the path before, still has it
C30_Witness ==
  /\ last.op = "toggleStep" /\ last.outcome = "ok"
  /\ \E c \in CallIds :
       /\ inflight[c].phase = "loaded"
       /\ inflight[c].progressId \in DOMAIN paths
       /\ inflight[c].loaded.completedSteps = 0
       /\ inflight[c].loaded.steps[1].completed
       /\ ~paths[inflight[c].progressId].steps[1].completed
       /\ \A j \in 1..Len(inflight[c].loaded.steps) :
            j # 1 => paths[inflight[c].progressId].steps[j]
                       = inflight[c].loaded.steps[j]
       /\ paths[inflight[c].progressId].completedSteps = 0

\* C31: in every state reached from created paths by operations that do not
\* overlap, completedSteps of every stored path is at least 0 and at most
\* totalSteps, also when the path holds the same stepId more than once.
C31_CounterWithinBounds ==
  \A p \in DOMAIN paths :
    /\ 0 <= paths[p].completedSteps
    /\ paths[p].completedSteps <= paths[p].totalSteps

\* a toggle has completed the first of two steps that carry the same stepId
C31_Witness ==
  /\ last.op = "toggleStep"
  /\ last.outcome = "ok"
  /\ \E p \in DOMAIN paths :
        /\ Len(paths[p].steps) = 2
        /\ paths[p].steps[1].stepId = paths[p].steps[2].stepId
        /\ paths[p].steps[1].completed
        /\ paths[p].completedSteps = 1
        /\ paths[p].totalSteps = 2

\* C33: locate, toggleStep, annotateStep and delete called with an empty or
\* missing caller id on an existing path are resolved by the unconditional
\* fallback, and the lookup writes nothing: the persisted userId stays as it
\* was (for delete, the only write is the removal).
C33_EmptyCallerKeepsOwner ==
  \A p \in DOMAIN paths :
    /\ \A r \in {getLearningPathById(paths, p, NoUser)} :
         r.found = p /\ r.via = "fallback" /\ r.writes = 0 /\ r.store = paths
    /\ \A s \in StepIds, v \in BOOLEAN :
         \A r \in {updateStepCompletion(paths, p, s, v, NoUser, now)} :
           /\ r.via = "fallback"
           /\ r.outcome \in {"ok", "StepNotFound"}
           /\ r.writes = (IF r.outcome = "ok" THEN 1 ELSE 0)
           /\ r.store[p].userId = paths[p].userId
    /\ \A s \in StepIds, n \in Notes :
         \A r \in {addStepNotes(paths, p, s, n, NoUser, now)} :
           /\ r.via = "fallback"
           /\ r.outcome \in {"ok", "StepNotFound"}
           /\ r.writes = (IF r.outcome = "ok" THEN 1 ELSE 0)
           /\ r.store[p].userId = paths[p].userId
    /\ \A r \in {deleteLearningPath(paths, p, NoUser)} :
         /\ r.via = "fallback"
         /\ r.outcome = "ok"
         /\ r.writes = 1
         /\ r.store = deleteOne(paths, p)

\* a toggle resolved by the fallback has written once: the caller id was
\* empty, and the owner is still the creator
C33_Witness ==
  /\ last.op = "toggleStep"
  /\ last.outcome = "ok"
  /\ last.via = "fallback"
  /\ last.writes = 1
  /\ \E p \in DOMAIN paths :
       paths[p].steps[1].completed /\ paths[p].userId \in {UserA, UserB}

\* C34: after a successful locate, toggleStep or annotateStep by a non-empty
\* caller id that does not start with "session:", the persisted userId of the
\* path is that caller id; a successful call by a session caller or by an
\* empty caller id leaves the persisted userId as it was, so the owner is
\* always the most recent caller of the first kind.
C34_OwnerIsLastCaller ==
  \A p \in DOMAIN paths, u \in UserIds :
    LET owner(store) ==
          IF Truthy(u) /\ ~startsWith(u, SessionPrefix) THEN store[p].userId = u
          ELSE store[p].userId = paths[p].userId
    IN /\ \A r \in {getLearningPathById(paths, p, u)} :
            r.found = p /\ owner(r.store)
       /\ \A s \in StepIds, v \in BOOLEAN :
            \A r \in {updateStepCompletion(paths, p, s, v, u, now)} :
              r.outcome = "ok" => owner(r.store)
       /\ \A s \in StepIds, n \in Notes :
            \A r \in {addStepNotes(paths, p, s, n, u, now)} :
              r.outcome = "ok" => owner(r.store)

\* an annotateStep by a caller who did not create the path has succeeded
\* through the fallback, and that caller is the owner now
C34_Witness ==
  /\ last.op = "annotateStep"
  /\ last.outcome = "ok"
  /\ last.via = "fallback"
  /\ last.writes = 2
  /\ \E p \in DOMAIN paths : paths[p].steps[1].notes = "n1"

\* one call under every fault: call(fault) is its result, mutated(doc) the
\* change it makes to the document
C32_Ordered(p, u, call(_), mutated(_)) ==
  \A r \in {call(0)}, look \in {FaultyGetLearningPathById(paths, p, u, 0)} :
    /\ r.outcome # "ok" => r.calls = look.calls /\ r.writes = look.writes
                           /\ r.store = look.store
    /\ r.outcome = "ok" =>
         /\ r.calls = look.calls + 1
         /\ mutated(r.store[p])
         /\ r.store[p].updatedAt = now
    /\ (r.outcome = "ok" /\ r.via \in {"strict", "session"}) =>
         /\ r.writes = 1
         /\ \A rf \in {call(r.calls)} :
              rf.failed /\ rf.writes = 0 /\ rf.store = paths
    /\ (r.outcome = "ok" /\ r.via = "fallback" /\ Truthy(u)) =>
         /\ r.writes = 2
         /\ \A rf \in {call(r.calls)} :
              /\ rf.failed
              /\ rf.writes = 1
              /\ rf.store = save(paths, p, [paths[p] EXCEPT !.userId = u])
         /\ \A rf \in {call(r.calls - 1)} :
              rf.failed /\ rf.writes = 0 /\ rf.store = paths

\* C32: within one toggleStep or annotateStep call the steps run in the order
\* lookup, step validation, mutation, persist.  A call that succeeds through
\* the strict or the session match writes the path exactly once; a call that
\* succeeds through the fallback with a non-empty caller id writes it exactly
\* twice, the identity repair first and the mutation second: rejecting the
\* last write leaves the repair and nothing else persisted, rejecting the one
\* before it leaves nothing persisted.  A step that is not found ends the call
\* before any mutation write is attempted.
C32_WritesInOrder ==
  \A p \in PathIds, u \in UserIds, s \in StepIds :
    /\ \A v \in BOOLEAN :
         LET call(fault) == FaultyUpdateStepCompletion(paths, p, s, v, u, now, fault)
             mutated(doc) == doc.steps[findIndex(doc.steps, s)].completed = v
         IN C32_Ordered(p, u, call, mutated)
    /\ \A n \in Notes :
         LET call(fault) == FaultyAddStepNotes(paths, p, s, n, u, now, fault)
             mutated(doc) == doc.steps[findIndex(doc.steps, s)].notes = n
         IN C32_Ordered(p, u, call, mutated)

\* a toggle that went through the fallback with a non-empty caller id has
\* written twice
C32_Witness ==
  /\ last.op = "toggleStep"
  /\ last.outcome = "ok"
  /\ last.via = "fallback"
  /\ last.writes = 2
  /\ \E p \in DOMAIN paths : paths[p].completedSteps = 1

\* the later version has saved the identity repair and then found no step
RepairThenNoStep(r, u) ==
  r.outcome = "StepNotFound" /\ r.via = "fallback" /\ Truthy(u)

\* C36 as stated: for every stored state, path id, step id, value or notes
\* and caller id, the earlier and the later version of updateStepCompletion
\* and of addStepNotes give the same outcome and the same persisted state.
C36_VersionsEquivalent ==
  \A p \in PathIds, u \in UserIds, s \in StepIds :
    /\ \A v \in BOOLEAN :
         \A e \in {updateStepCompletionInline(paths, p, s, v, u, now)},
            l \in {updateStepCompletion(paths, p, s, v, u, now)} :
           e.outcome = l.outcome /\ e.store = l.store
    /\ \A n \in Notes :
         \A e \in {addStepNotesInline(paths, p, s, n, u, now)},
            l \in {addStepNotes(paths, p, s, n, u, now)} :
           e.outcome = l.outcome /\ e.store = l.store

\* C36, amended: both versions give the same outcome, and the same persisted
\* state except when the step is not found after the fallback has resolved
\* the path for a non-empty caller id: there the earlier version leaves the
\* persisted state as it was and the later version has persisted the caller
\* id as userId.
C36_VersionsDifferInRepair ==
  \A p \in PathIds, u \in UserIds, s \in StepIds :
    /\ \A v \in BOOLEAN :
         \A e \in {updateStepCompletionInline(paths, p, s, v, u, now)},
            l \in {updateStepCompletion(paths, p, s, v, u, now)} :
           /\ e.outcome = l.outcome
           /\ e.via = l.via
           /\ ~RepairThenNoStep(l, u) => e.store = l.store
           /\ RepairThenNoStep(l, u) =>
                /\ e.store = paths
                /\ l.store = save(paths, p, [paths[p] EXCEPT !.userId = u])
    /\ \A n \in Notes :
         \A e \in {addStepNotesInline(paths, p, s, n, u, now)},
            l \in {addStepNotes(paths, p, s, n, u, now)} :
           /\ e.outcome = l.outcome
           /\ e.via = l.via
           /\ ~RepairThenNoStep(l, u) => e.store = l.store
           /\ RepairThenNoStep(l, u) =>
                /\ e.store = paths
                /\ l.store = save(paths, p, [paths[p] EXCEPT !.userId = u])

\* the later annotateStep has succeeded through the fallback for a non-empty
\* caller id, at a time after the path was created: repair, notes and
\* timestamps are persisted, as the earlier version persists them in one save
C36_Witness ==
  /\ last.op = "annotateStep"
  /\ last.outcome = "ok"
  /\ last.via = "fallback"
  /\ last.writes = 2
  /\ \E p \in DOMAIN paths :
       /\ paths[p].updatedAt > paths[p].createdAt
       /\ paths[p].steps[1].notes = "n1"

\* C35: when two delete calls on the same path have both completed their
\* lookup before either removes the path, one returns success and the other,
\* whose removal finds the path gone, fails with the path-not-found error
\* 'Learning path not found'.
C35_LateDeleteNotFound ==
  [][\A c \in CallIds :
       (/\ inflight[c].phase = "found"
        /\ inflight'[c].phase = "idle"
        /\ inflight[c].progressId \notin DOMAIN paths)
       => (last'.op = "delete" /\ last'.outcome = "NotFound")]_vars

\* C37: the fallback extraction is reachable: a text without keyword line and
\* without heading line that has at least three plain numbered lines is left
\* to the fallback, and extractLearningSteps returns those lines as the steps
\* "item-1", "item-2", ... in order.
C37_FallbackReachable ==
  (extraction.done /\ extraction.input.kind = "string") =>
    \A items \in {AllMatches(SimplePattern, extraction.input.chars, 1)} :
      ( /\ AllMatches(KeywordPattern, extraction.input.chars, 1) = <<>>
        /\ AllMatches(HeadingPattern, extraction.input.chars, 1) = <<>>
        /\ Len(items) >= MinSimpleSteps )
      => /\ Len(extraction.steps) = Len(items)
         /\ \A i \in 1..Len(items) :
              /\ extraction.steps[i].id = ItemPrefix \o Decimal(i)
              /\ extraction.steps[i].title = truncate(trim(stripNumber(items[i].whole)))

\* C38: no learning path is persisted with zero steps through the callers of
\* the service: every stored path has at least one step, the create
\* controller answers 400 and writes nothing when the step list extracted
\* from the text or sent by the caller is empty, and the chat endpoint
\* creates no path when the list extracted from the answer is empty.
C38_NoPathWithoutSteps ==
  /\ \A p \in DOMAIN paths : Len(paths[p].steps) > 0 /\ paths[p].totalSteps > 0
  /\ (last.op = "createRequest" /\ last.steps = 0) =>
       last.outcome = "400" /\ last.writes = 0
  /\ (last.op = "chat" /\ last.steps = 0) =>
       last.via = "NoPath" /\ last.writes = 0

\* with a path stored, a create request whose text gave no steps has been
\* answered 400
C38_Witness ==
  /\ last.op = "createRequest"
  /\ last.via = "NoStepsExtracted"
  /\ last.outcome = "400"
  /\ DOMAIN paths # {}

\* the lines without the k-th
WithoutLine(lines, k) ==
  [i \in 1..(Len(lines) - 1) |-> IF i < k THEN lines[i] ELSE lines[i + 1]]

\* title and category of each step
TitlesAndCategories(steps) ==
  [i \in 1..Len(steps) |-> <<steps[i].title, steps[i].category>>]

\* C39: each step is derived from a single line of the text: no title holds
\* a line break, and removing a line that by itself matches no pattern
\* leaves the title and the category of every step as they were.
C39_LineLocal ==
  (extraction.done /\ extraction.input.kind = "string") =>
    /\ \A i \in 1..Len(extraction.steps) :
         \A j \in 1..Len(extraction.steps[i].title) :
           extraction.steps[i].title[j] # NL
    /\ \A lines \in {SplitLines(extraction.input.chars)} :
         \A k \in 1..Len(lines) :
           extractLearningSteps(Text(lines[k])) = <<>> =>
             TitlesAndCategories(extractLearningSteps(Text(Join(WithoutLine(lines, k)))))
               = TitlesAndCategories(extraction.steps)

====
